---------------------------- MODULE Spec2Model ----------------------------
(***************************************************************************)
(* A model of Ovid (veikman/ovid): recursive substitution of delimited     *)
(* shorthand in text by the output of registered handler functions.        *)
(*                                                                         *)
(* Text is a sequence of one-character strings.  A regular expression is a *)
(* tree of records; the matcher below gives it the meaning Python's        *)
(* backtracking "re" module gives the pattern text the code builds.        *)
(***************************************************************************)
EXTENDS Integers, Sequences, FiniteSets, TLC

VARIABLES
    registry,   \* CollectiveProcessor.registry: the keys of the processors
    nreg,       \* the number of processors constructed so far
    pc,         \* where the current call is: idle, unsafe, collective,
                \* returned, raised; registered and swallowed after the
                \* return of a decorator
    raw,        \* collective_sub: raw_string
    safe,       \* collective_sub: safe
    passthrough,\* collective_sub: kwargs, the passthrough keyword values
    whole,      \* _collective_sub_unsafe: string, the whole text
    target,     \* _collective_sub_unsafe: the span found, [start, end]
    inner,      \* CollectiveProcessor.collective_sub: string
    called,     \* the handler calls made during the current call
    result,     \* what the call returned or raised: [kind, text]
    self,       \* the processor whose subn, sub or produce is the current
                \* call, by its key; "" when the call is collective_sub
    given,      \* produce: the values given, [unnamed, named]
    scope,      \* collective_sub: cls, the class it is called on, by name
    cache,      \* Cacher: the _cache of every class, by the name of the class
    variant,    \* the classes made after the start: [made, own, registry]
    stack,      \* the activations of _collective_sub_unsafe that wait for
                \* the replacement of their target: [whole, target, depth]
    depth       \* the number of nested calls that the running activation
                \* of _collective_sub_unsafe is at

vars == <<registry, nreg, pc, raw, safe, passthrough, whole, target, inner,
          called, result, self, given, scope, cache, variant, stack, depth>>

(***************************************************************************)
(* Regular expressions as trees.  Every node has the same fields:          *)
(*   t  the kind of node          c  a character                           *)
(*   k  the children              n  the number of a capturing group       *)
(*   w  a set of characters (a class)    x  a literal text (a look-behind) *)
(***************************************************************************)
Node(t, c, k, n, w, x) == [t |-> t, c |-> c, k |-> k, n |-> n, w |-> w, x |-> x]

Lit(c) == Node("lit", c, <<>>, 0, {}, <<>>)
AnyChar == Node("any", "", <<>>, 0, {}, <<>>)
InSet(w) == Node("set", "", <<>>, 0, w, <<>>)
Cat(k) == Node("cat", "", k, 0, {}, <<>>)
Alt(k) == Node("alt", "", k, 0, {}, <<>>)
Star(r) == Node("star", "", <<r>>, 0, {}, <<>>)
LazyStar(r) == Node("lazystar", "", <<r>>, 0, {}, <<>>)
Opt(r) == Node("opt", "", <<r>>, 0, {}, <<>>)
Group(n, r) == Node("grp", "", <<r>>, n, {}, <<>>)
NotAhead(r) == Node("nla", "", <<r>>, 0, {}, <<>>)
NotBehind(txt) == Node("nlb", "", <<>>, 0, {}, txt)

\* The pattern that matches the text txt literally, character by character.
Text(txt) == Cat([i \in 1..Len(txt) |-> Lit(txt[i])])


(***************************************************************************)
(* The matcher.  A match state st is [p, g]: p characters of the subject   *)
(* are consumed, and g[i] is <<>> for a group that has not participated or *)
(* <<start, end>> (offsets) for one that has.  M(r, cx, st) is the         *)
(* sequence of states in which a match of r that starts in st can end, in  *)
(* the order in which a backtracking matcher tries them; cx is the subject *)
(* [s |-> text, dotall |-> flag].                                          *)
(***************************************************************************)
RECURSIVE M(_, _, _), MAll(_, _, _), MCat(_, _, _), MAlt(_, _, _)

Advanced(sts, p) == SelectSeq(sts, LAMBDA st : st.p > p)

MAll(r, cx, sts) ==
    IF sts = <<>> THEN <<>>
    ELSE M(r, cx, Head(sts)) \o MAll(r, cx, Tail(sts))

MCat(k, cx, sts) ==
    IF k = <<>> THEN sts
    ELSE MCat(Tail(k), cx, MAll(Head(k), cx, sts))

MAlt(k, cx, st) ==
    IF k = <<>> THEN <<>>
    ELSE M(Head(k), cx, st) \o MAlt(Tail(k), cx, st)

M(r, cx, st) ==
    LET s == cx.s
        more == st.p < Len(s)
        ch == s[st.p + 1]
        step == <<[st EXCEPT !.p = @ + 1]>>
    IN  CASE r.t = "lit" -> IF more /\ ch = r.c THEN step ELSE <<>>
          [] r.t = "any" -> IF more /\ (cx.dotall \/ ch # "\n") THEN step ELSE <<>>
          [] r.t = "set" -> IF more /\ ch \in r.w THEN step ELSE <<>>
          [] r.t = "cat" -> MCat(r.k, cx, <<st>>)
          [] r.t = "alt" -> MAlt(r.k, cx, st)
          [] r.t = "star" ->
                MAll(r, cx, Advanced(M(r.k[1], cx, st), st.p)) \o <<st>>
          [] r.t = "lazystar" ->
                <<st>> \o MAll(r, cx, Advanced(M(r.k[1], cx, st), st.p))
          [] r.t = "opt" -> M(r.k[1], cx, st) \o <<st>>
          [] r.t = "grp" ->
                LET Captured(in) ==
                        [i \in 1..Len(in) |->
                            [in[i] EXCEPT !.g[r.n] = <<st.p, in[i].p>>]]
                IN  Captured(M(r.k[1], cx, st))
          [] r.t = "nla" -> IF M(r.k[1], cx, st) = <<>> THEN <<st>> ELSE <<>>
          [] r.t = "nlb" ->
                IF st.p >= Len(r.x)
                   /\ SubSeq(s, st.p - Len(r.x) + 1, st.p) = r.x
                THEN <<>> ELSE <<st>>

(***************************************************************************)
(* A compiled pattern is [tree, names]: names[i] is the name of group i, a *)
(* text, or <<>> for an unnamed group (re.groups is Len(names), and        *)
(* re.groupindex its named entries).  A match object is [start, end, g],   *)
(* or NoMatch.                                                             *)
(***************************************************************************)
Compile(tree, names) == [tree |-> tree, names |-> names]

NoMatch == [start |-> -1, end |-> -1, g |-> <<>>]

\* The match of re that starts at offset i, as the matcher prefers it; with
\* mustAdvance, an empty match is passed over (a pass of sub after an empty
\* match).
MatchAt(re, cx, i, mustAdvance) ==
    LET st0 == [p |-> i, g |-> [j \in 1..Len(re.names) |-> <<>>]]
        Preferred(all) ==
            IF all = <<>> THEN NoMatch
            ELSE [start |-> i, end |-> all[1].p, g |-> all[1].g]
    IN  Preferred(Advanced(M(re.tree, cx, st0), IF mustAdvance THEN i ELSE -1))

\* Pattern.search(string, pos): the leftmost match starting at pos or later.
RECURSIVE SearchFrom(_, _, _, _)
SearchFrom(re, cx, i, mustAdvance) ==
    IF i > Len(cx.s) THEN NoMatch
    ELSE LET OrLater(m) ==
                 IF m # NoMatch THEN m ELSE SearchFrom(re, cx, i + 1, FALSE)
         IN  OrLater(MatchAt(re, cx, i, mustAdvance))

Search(re, s, dotall) == SearchFrom(re, [s |-> s, dotall |-> dotall], 0, FALSE)

\* re.fullmatch: a match of the whole text (any way of matching that ends at
\* the end will do).
FullMatch(re, s, dotall) ==
    LET cx == [s |-> s, dotall |-> dotall]
        st0 == [p |-> 0, g |-> [j \in 1..Len(re.names) |-> <<>>]]
        Ends(all) == {all[i].p : i \in DOMAIN all}
    IN  Len(s) \in Ends(M(re.tree, cx, st0))

\* The text a group captured, and whether it took part in the match.
Took(m, i) == m.g[i] # <<>>
GroupText(s, m, i) == SubSeq(s, m.g[i][1] + 1, m.g[i][2])
MatchText(s, m) == SubSeq(s, m.start + 1, m.end)

(***************************************************************************)
(* Pattern text.  The code keeps delimiters, the escape token and the      *)
(* separator as pattern text and joins them into larger patterns.  The     *)
(* model keeps them as text too, and reads a text of literal characters    *)
(* and backslash-escaped characters as the pattern it is.                  *)
(***************************************************************************)
\* The characters re.escape puts a backslash before (Python 3.7 and later).
SpecialChars ==
    {"(", ")", "[", "]", "{", "}", "?", "*", "+", "-", "|", "^", "$", "\\",
     ".", "&", "~", "#", " ", "\n"}

RECURSIVE ReEscape(_)
ReEscape(txt) ==
    IF txt = <<>> THEN <<>>
    ELSE (IF Head(txt) \in SpecialChars THEN <<"\\", Head(txt)>> ELSE <<Head(txt)>>)
         \o ReEscape(Tail(txt))

\* The text a pattern of literal and escaped characters matches.
RECURSIVE Literal(_)
Literal(pat) ==
    IF pat = <<>> THEN <<>>
    ELSE IF Head(pat) = "\\" /\ Len(pat) >= 2
         THEN <<pat[2]>> \o Literal(SubSeq(pat, 3, Len(pat)))
         ELSE <<Head(pat)>> \o Literal(Tail(pat))

Pattern(pat) == Text(Literal(pat))

(***************************************************************************)
(* DelimitedShorthand: a class is its constants.                           *)
(***************************************************************************)
DelimitedShorthand ==
    [lead_in |-> <<"{", "{">>, lead_out |-> <<"}", "}">>,
     escape |-> ReEscape(<<"\\">>), dotall |-> FALSE]

\* _escape: the escape token before every character of the delimiter.
RECURSIVE EscapeEach(_, _)
EscapeEach(escape, delimiter) ==
    IF delimiter = <<>> THEN <<>>
    ELSE escape \o <<Head(delimiter)>> \o EscapeEach(escape, Tail(delimiter))

_escape(cls, delimiter) ==
    IF cls.escape # <<>> /\ delimiter # <<>>
    THEN Pattern(EscapeEach(cls.escape, delimiter))
    ELSE Pattern(delimiter)

\* _unescape: a look-behind, for a delimiter of one character only, and for
\* the text that re.escape of the escape token matches.
_unescape(cls, delimiter) ==
    IF cls.escape # <<>> /\ Len(delimiter) = 1
    THEN Cat(<<NotBehind(Literal(ReEscape(cls.escape))), Pattern(delimiter)>>)
    ELSE Pattern(delimiter)

\* _generate_re: the processor's pattern between the delimiters.
_generate_re(cls, subpattern, names) ==
    Compile(Cat(<<Pattern(cls.lead_in), subpattern, Pattern(cls.lead_out)>>),
            names)

\* A target finder whose content may hold a lead-in.
_targetfinderAnyContent(cls) ==
    Compile(
        Cat(<<_unescape(cls, cls.lead_in),
              Group(1, LazyStar(Alt(<<_escape(cls, cls.lead_in),
                                      _escape(cls, cls.lead_out),
                                      AnyChar>>))),
              _unescape(cls, cls.lead_out)>>),
        <<<<>>>>)

_targetfinder(cls) ==
    Compile(
        Cat(<<_unescape(cls, cls.lead_in),
              Group(1, LazyStar(Alt(<<_escape(cls, cls.lead_in),
                                      _escape(cls, cls.lead_out),
                                      Cat(<<NotAhead(_unescape(cls, cls.lead_in)),
                                            AnyChar>>)>>))),
              _unescape(cls, cls.lead_out)>>),
        <<<<>>>>)

_active_delimiters(cls) ==
    <<Compile(_unescape(cls, cls.lead_in), <<>>),
      Compile(_unescape(cls, cls.lead_out), <<>>)>>

(***************************************************************************)
(* The classes, by name.  DelimitedShorthand, SignatureShorthand and       *)
(* IndiscriminateShorthand exist from the start, have the same constants   *)
(* and no registry of their own, so that cls.registry is the registry of   *)
(* CollectiveProcessor; the others are made by variant_class, or by a      *)
(* class statement as in the tests, from DelimitedShorthand.               *)
(* AutoRegisteringProcessor has that registry too, no delimiters and no    *)
(* cache, and its collective_sub is that of CollectiveProcessor.           *)
(***************************************************************************)
BaseName == "DelimitedShorthand"
SignatureName == "SignatureShorthand"
IndiscriminateName == "IndiscriminateShorthand"
AutoName == "AutoRegisteringProcessor"
VariantNames == {"Custom", "SingleCharacter"}
ClassNames == {BaseName, SignatureName, IndiscriminateName} \cup VariantNames

\* The keyword arguments that make the variant of each name.
VariantKwargs(name) ==
    IF name = "SingleCharacter"
    THEN [lead_in |-> <<"{">>, lead_out |-> <<"}">>]
    ELSE [a \in {} |-> <<>>]

\* variant_class: type(name, (cls,), kwargs), a subclass whose attributes
\* are those of kwargs and, for the rest, those of cls.
variant_class(cls, kwargs) ==
    [a \in DOMAIN cls |-> IF a \in DOMAIN kwargs THEN kwargs[a] ELSE cls[a]]

ClassOf(name) ==
    IF name \in VariantNames
    THEN variant_class(DelimitedShorthand, VariantKwargs(name))
    ELSE DelimitedShorthand

(***************************************************************************)
(* Cacher.cache_results: the results of _targetfinder, _active_delimiters, *)
(* _escape and _unescape are kept in the _cache of the class they are      *)
(* called on, under the name of the method and its arguments, the class    *)
(* first.  A cache is a function from keys to results.                     *)
(***************************************************************************)
NoCache == [k \in {} |-> <<>>]

Key(f, name, arg) == [f |-> f, cls |-> name, arg |-> arg]

\* memoizer: the cache after a call with the key, whose result is value
\* when the cache has none.
memoizer(c, key, value) == IF key \in DOMAIN c THEN c ELSE c @@ (key :> value)

RECURSIVE Memoized(_, _)
Memoized(c, entries) ==
    IF entries = <<>> THEN c
    ELSE Memoized(memoizer(c, Head(entries)[1], Head(entries)[2]), Tail(entries))

\* The calls that cls._unescape(delimiter) and cls._escape(delimiter) are.
Unescaped(name, cls, delimiter) ==
    <<Key("_unescape", name, delimiter), _unescape(cls, delimiter)>>
Escaped(name, cls, delimiter) ==
    <<Key("_escape", name, delimiter), _escape(cls, delimiter)>>

\* A cache whose target finder is that of the parent class.
TargetfinderInherited(name, cls, c) ==
    IF Key("_targetfinder", name, <<>>) \in DOMAIN c THEN c
    ELSE Memoized(c, <<Unescaped(name, cls, cls.lead_in),
                       Escaped(name, cls, cls.lead_in),
                       Unescaped(name, cls, cls.lead_out),
                       Escaped(name, cls, cls.lead_out),
                       <<Key("_targetfinder", name, <<>>),
                         _targetfinder(DelimitedShorthand)>>>>)

\* The cache of the class after cls._targetfinder(): a first call makes the
\* four calls of _unescape and _escape and keeps their results and its own.
TargetfinderCached(name, cls, c) ==
    IF Key("_targetfinder", name, <<>>) \in DOMAIN c THEN c
    ELSE Memoized(c, <<Unescaped(name, cls, cls.lead_in),
                       Escaped(name, cls, cls.lead_in),
                       Unescaped(name, cls, cls.lead_out),
                       Escaped(name, cls, cls.lead_out),
                       <<Key("_targetfinder", name, <<>>), _targetfinder(cls)>>>>)

\* The cache of the class after cls._active_delimiters().
ActiveDelimitersCached(name, cls, c) ==
    IF Key("_active_delimiters", name, <<>>) \in DOMAIN c THEN c
    ELSE Memoized(c, <<Unescaped(name, cls, cls.lead_in),
                       Unescaped(name, cls, cls.lead_out),
                       <<Key("_active_delimiters", name, <<>>),
                         _active_delimiters(cls)>>>>)

\* The cache of a class whose collective_sub has been called with safe on.
Warm(name) ==
    ActiveDelimitersCached(name, ClassOf(name),
                           TargetfinderCached(name, ClassOf(name), NoCache))

(***************************************************************************)
(* Handlers.  A handler is an opaque callable; the model has a few kinds,  *)
(* enough to see in its output what it was called with:                    *)
(*   const  returns fn.text whatever positional values it is given         *)
(*   emit   returns fn.text whatever it is given, keywords included        *)
(*   kw     returns the value of its one keyword parameter                 *)
(*   join   returns the values of its parameters joined by spaces          *)
(* fn.req and fn.opts are the names of the parameters without and with a   *)
(* default (fn.defaults), as inspect.getfullargspec reports them;          *)
(* fn.varargs and fn.varkw tell whether it takes further positional and    *)
(* keyword values.                                                         *)
(* A call is recorded as [fn, args, kw]: the handler's name, the           *)
(* positional values and the keyword values it received.                   *)
(***************************************************************************)
None == <<"None">>

Handler(name, kind, text, req, opts, defaults, varargs, varkw) ==
    [name |-> name, kind |-> kind, text |-> text, req |-> req, opts |-> opts,
     defaults |-> defaults, varargs |-> varargs, varkw |-> varkw]

\* lambda *_: text
Const(name, text) == Handler(name, "const", text, <<>>, <<>>, <<>>, TRUE, FALSE)
\* def name(*_, **__): return text
Emit(name, text) == Handler(name, "const", text, <<>>, <<>>, <<>>, TRUE, TRUE)
\* def name(param=default, **kwargs): return param
KwHandler(name, param, default) ==
    Handler(name, "kw", <<>>, <<>>, <<param>>, <<default>>, FALSE, TRUE)
\* def name(*_): raise error
Raise(name, error) == Handler(name, "raise", <<error>>, <<>>, <<>>, <<>>, TRUE, FALSE)
\* lambda: text
Fixed(name, text) == Handler(name, "const", text, <<>>, <<>>, <<>>, FALSE, FALSE)
\* def name(req.., opt=default..): return text
Returning(name, text, req, opts, defaults) ==
    Handler(name, "const", text, req, opts, defaults, FALSE, FALSE)
\* def name(*args, **kwargs): return responses.get(args[0], 'x')
Switch(name, responses) ==
    Handler(name, "switch", responses, <<>>, <<>>, <<>>, TRUE, TRUE)
\* def name(param): return text + param
Prefix(name, text, param) ==
    Handler(name, "prefix", text, <<param>>, <<>>, <<>>, FALSE, FALSE)
\* def name(req.., opt=default..): return " ".join(map(str, (req.., opt..)))
Join(name, req, opts, defaults) ==
    Handler(name, "join", <<>>, req, opts, defaults, FALSE, FALSE)

Range(f) == {f[i] : i \in DOMAIN f}
Min(a, b) == IF a <= b THEN a ELSE b

\* Python's binding of a call to the signature: whether the call is
\* accepted (else it raises TypeError), and the value each parameter gets.
Params(fn) == fn.req \o fn.opts

Accepts(fn, args, kw) ==
    LET params == Params(fn)
        npos == Min(Len(args), Len(params))
        byPosition == {params[i] : i \in 1..npos}
    IN  /\ fn.varargs \/ Len(args) <= Len(params)
        /\ \A k \in DOMAIN kw :
              /\ k \notin byPosition
              /\ fn.varkw \/ k \in Range(params)
        /\ \A i \in 1..Len(fn.req) : i <= npos \/ fn.req[i] \in DOMAIN kw

\* The value a handler sees for a keyword parameter: the one passed, else
\* its own default.
Param(kw, name, default) == IF name \in DOMAIN kw THEN kw[name] ELSE default

Bound(fn, args, kw) ==
    [i \in 1..Len(Params(fn)) |->
        IF i <= Len(args) THEN args[i]
        ELSE IF i <= Len(fn.req) THEN kw[fn.req[i]]
        ELSE Param(kw, fn.opts[i - Len(fn.req)], fn.defaults[i - Len(fn.req)])]

RECURSIVE JoinWith(_, _)
JoinWith(sep, parts) ==
    IF parts = <<>> THEN <<>>
    ELSE IF Len(parts) = 1 THEN parts[1]
    ELSE parts[1] \o sep \o JoinWith(sep, Tail(parts))

\* The error a call ends with: TypeError when Python cannot bind the call
\* to the signature, the handler's own error when it raises one, "" when
\* the call returns.
Raised(fn, args, kw) ==
    IF ~Accepts(fn, args, kw) THEN "TypeError"
    ELSE IF fn.kind = "raise" THEN fn.text[1]
    ELSE IF fn.kind = "switch" /\ args = <<>> THEN "IndexError"
    ELSE ""

\* The text a call that returns, returns.
Call(fn, args, kw) ==
    CASE fn.kind = "const" -> fn.text
      [] fn.kind = "kw" -> Bound(fn, args, kw)[1]
      [] fn.kind = "join" -> JoinWith(<<" ">>, Bound(fn, args, kw))
      [] fn.kind = "switch" -> IF args[1] \in DOMAIN fn.text
                               THEN fn.text[args[1]] ELSE <<"x">>
      [] fn.kind = "prefix" -> fn.text \o Bound(fn, args, kw)[1]

\* dict.update: the entries of b, and those of a that b does not replace.
Update(a, b) ==
    [k \in DOMAIN a \cup DOMAIN b |-> IF k \in DOMAIN b THEN b[k] ELSE a[k]]

NoKw == [k \in {} |-> <<>>]

(***************************************************************************)
(* OneWayProcessor: [cls, re, function].                                   *)
(***************************************************************************)
\* __init__: the indices of the groups that have no name.
_unnamed_group_indices(re) ==
    SelectSeq([i \in 1..Len(re.names) |-> i], LAMBDA i : re.names[i] = <<>>)

\* _unique_groups: the unnamed groups in order (None for one that took no
\* part), and the named groups that took part.
_unique_groups(re, s, m) ==
    LET idx == _unnamed_group_indices(re)
        named == {i \in 1..Len(re.names) : re.names[i] # <<>> /\ Took(m, i)}
    IN  [unnamed |-> [j \in 1..Len(idx) |->
                        IF Took(m, idx[j]) THEN GroupText(s, m, idx[j]) ELSE None],
         named |-> [k \in {re.names[i] : i \in named} |->
                        GroupText(s, m, CHOOSE i \in named : re.names[i] = k)]]

\* _FunctionLikeDelimitedShorthand: the separator of the parts of markup and
\* the operator between the name and the value of a part.
separator == <<"|">>
assignment_operator == <<"=">>

\* re.split(pattern, string) for a pattern that is one character: the texts
\* between its occurrences, part being the text since the last one.
RECURSIVE ReSplit(_, _, _)
ReSplit(sep, txt, part) ==
    IF txt = <<>> THEN <<part>>
    ELSE IF <<Head(txt)>> = sep THEN <<part>> \o ReSplit(sep, Tail(txt), <<>>)
    ELSE ReSplit(sep, Tail(txt), Append(part, Head(txt)))

\* IndiscriminateShorthand._tokenize: the content of the markup is split at
\* the separators; an element with an assignment operator is a keyword,
\* named by what stands before the first operator, and any other element
\* is a positional value.
RECURSIVE Tokenized(_, _, _)
Element(pieces, rest, args, kwargs) ==
    IF Len(pieces) = 1
    THEN Tokenized(rest, Append(args, pieces[1]), kwargs)
    ELSE Tokenized(rest, args,
                   Update(kwargs,
                          [k \in {pieces[1]} |->
                              JoinWith(assignment_operator, Tail(pieces))]))

Tokenized(elements, args, kwargs) ==
    IF elements = <<>> THEN [args |-> args, named |-> kwargs]
    ELSE Element(ReSplit(assignment_operator, Head(elements), <<>>),
                 Tail(elements), args, kwargs)

_tokenize(string) == Tokenized(ReSplit(separator, string, <<>>), <<>>, NoKw)

\* The keyword that _process takes out of the passthrough values.
CountKey == <<"c", "o", "u", "n", "t">>

Without(kw, key) == [k \in DOMAIN kw \ {key} |-> kw[k]]

(***************************************************************************)
(* _process: one pass of re.sub or re.subn over the string, calling the    *)
(* handler for every match.  The pass keeps one dictionary kw, which the   *)
(* replacement function updates with the named groups of each match.       *)
(* The result is [out, n, calls, err]: the new text, the number of         *)
(* replacements, the handler calls made in order, and the error a handler  *)
(* call raised ("" for none), which ends the pass.                         *)
(***************************************************************************)
\* repl of IndiscriminateShorthand._process: the positional values and the
\* keywords are the tokens tk of the one group of the pattern.
replTokens(tk, kw) == [args |-> tk.args, kw |-> Update(kw, tk.named)]

\* repl: what the handler is called with for match m, given the dictionary.
repl(proc, s, m, kw) ==
    IF "tokens" \in DOMAIN proc
    THEN replTokens(_tokenize(_unique_groups(proc.re, s, m).unnamed[1]), kw)
    ELSE LET groups == _unique_groups(proc.re, s, m)
             kwargs == Update(kw, groups.named)
         IN  [args |-> groups.unnamed, kw |-> kwargs]

\* The pass after match m: the handler is called with c = repl(m), and its
\* output replaces the match.
RECURSIVE Pass(_, _, _, _, _, _, _)
Replace(proc, cx, count, last, acc, m, c) ==
    LET call == [fn |-> proc.function.name, args |-> c.args, kw |-> c.kw]
    IN  IF Raised(proc.function, c.args, c.kw) # ""
        THEN [out |-> <<>>, n |-> acc.n, calls |-> Append(acc.calls, call),
              err |-> Raised(proc.function, c.args, c.kw)]
        ELSE Pass(proc, cx, count, m.end, m.end = m.start, m.end,
                  [out |-> acc.out \o SubSeq(cx.s, last + 1, m.start)
                           \o Call(proc.function, c.args, c.kw),
                   n |-> acc.n + 1,
                   kw |-> c.kw,
                   calls |-> Append(acc.calls, call)])

\* A pass that replaces every match, whatever count says.
FoundWhateverCount(proc, cx, count, last, acc, m) ==
    IF m = NoMatch
    THEN [out |-> acc.out \o SubSeq(cx.s, last + 1, Len(cx.s)), n |-> acc.n,
          calls |-> acc.calls, err |-> ""]
    ELSE Replace(proc, cx, count, last, acc, m, repl(proc, cx.s, m, acc.kw))

\* The pass at match m, NoMatch at the end of the string.
Found(proc, cx, count, last, acc, m) ==
    IF (count # 0 /\ acc.n >= count) \/ m = NoMatch
    THEN [out |-> acc.out \o SubSeq(cx.s, last + 1, Len(cx.s)), n |-> acc.n,
          calls |-> acc.calls, err |-> ""]
    ELSE Replace(proc, cx, count, last, acc, m, repl(proc, cx.s, m, acc.kw))

Pass(proc, cx, count, pos, mustAdvance, last, acc) ==
    Found(proc, cx, count, last, acc, SearchFrom(proc.re, cx, pos, mustAdvance))

\* A pass that leaves count among the keywords of the handler.
_processForwardingCount(proc, string, kwargs) ==
    Pass(proc, [s |-> string, dotall |-> proc.dotall],
         IF CountKey \in DOMAIN kwargs THEN kwargs[CountKey] ELSE 0,
         0, FALSE, 0,
         [out |-> <<>>, n |-> 0, kw |-> kwargs, calls |-> <<>>])

\* A pass that keeps the keywords to itself.
_processNoKeywords(proc, string, kwargs) ==
    Pass(proc, [s |-> string, dotall |-> proc.dotall],
         IF CountKey \in DOMAIN kwargs THEN kwargs[CountKey] ELSE 0,
         0, FALSE, 0,
         [out |-> <<>>, n |-> 0, kw |-> NoKw, calls |-> <<>>])

_process(proc, string, kwargs) ==
    Pass(proc, [s |-> string, dotall |-> proc.dotall],
         IF CountKey \in DOMAIN kwargs THEN kwargs[CountKey] ELSE 0,
         0, FALSE, 0,
         [out |-> <<>>, n |-> 0, kw |-> Without(kwargs, CountKey), calls |-> <<>>])

\* sub returns the text, subn the text and the number of replacements.
subn(proc, string, kwargs) == _process(proc, string, kwargs)
sub(proc, string, kwargs) == _process(proc, string, kwargs).out

(***************************************************************************)
(* SignatureShorthand: markup that looks like a call of the handler.       *)
(***************************************************************************)
Letters ==
    {"a", "b", "c", "d", "e", "f", "g", "h", "i", "j", "k", "l", "m", "n", "o",
     "p", "q", "r", "s", "t", "u", "v", "w", "x", "y", "z",
     "A", "B", "C", "D", "E", "F", "G", "H", "I", "J", "K", "L", "M", "N", "O",
     "P", "Q", "R", "S", "T", "U", "V", "W", "X", "Y", "Z"}
Digits == {"0", "1", "2", "3", "4", "5", "6", "7", "8", "9"}

\* _python_identifier: [^\d\W]\w*
_python_identifier ==
    Cat(<<InSet(Letters \cup {"_"}), Star(InSet(Letters \cup Digits \cup {"_"}))>>)

active_op(cls) == _unescape(cls, ReEscape(assignment_operator))
active_sep(cls) == _unescape(cls, ReEscape(separator))

\* An unnamed group that takes any content without a separator.
_unnamed_patternAnyContent(cls, n) ==
    Group(n, Star(Cat(<<NotAhead(active_sep(cls)), AnyChar>>)))

\* The content of an unnamed group, captured as group n: it must not look
\* like a named group and holds no active separator.
_unnamed_pattern(cls, n) ==
    Cat(<<NotAhead(Cat(<<_python_identifier, active_op(cls)>>)),
          Group(n, Star(Cat(<<NotAhead(active_sep(cls)), AnyChar>>)))>>)

\* The content of a named group.
_named_pattern(cls) == Star(Cat(<<NotAhead(active_sep(cls)), AnyChar>>))

\* A pattern in which the parameters with a default must all be given.
SignaturePatternAllGiven(cls, function) ==
    LET nreq == Len(function.req)
        nopt == Len(function.opts)
    IN  Cat(<<Text(function.name)>>
            \o [i \in 1..nreq |->
                    Cat(<<active_sep(cls), _unnamed_pattern(cls, i)>>)]
            \o [j \in 1..nopt |->
                    Cat(<<active_sep(cls), Text(function.opts[j]),
                          active_op(cls),
                          Group(nreq + j, _named_pattern(cls))>>)])

\* __init__: the name, a separator and a group for every parameter without
\* a default, an optional "separator name operator group" for every
\* parameter with one, in the order of the signature.
SignaturePattern(cls, function) ==
    LET nreq == Len(function.req)
        nopt == Len(function.opts)
    IN  Cat(<<Text(function.name)>>
            \o [i \in 1..nreq |->
                    Cat(<<active_sep(cls), _unnamed_pattern(cls, i)>>)]
            \o [j \in 1..nopt |->
                    Opt(Cat(<<active_sep(cls), Text(function.opts[j]),
                              active_op(cls),
                              Group(nreq + j, _named_pattern(cls))>>))])

SignatureNames(function) ==
    [i \in 1..Len(function.req) |-> <<>>] \o function.opts

\* A processor made by DelimitedShorthand(pattern, function) or by
\* SignatureShorthand(function): [re, function, dotall].
DelimitedProcessor(cls, subpattern, names, function) ==
    [re |-> _generate_re(cls, subpattern, names), function |-> function,
     dotall |-> cls.dotall]

SignatureShorthand(cls, function) ==
    DelimitedProcessor(cls, SignaturePattern(cls, function),
                       SignatureNames(function), function)

\* A processor made by IndiscriminateShorthand(function): the pattern is
\* (.*?) between the delimiters, and _process takes the one group apart.
IndiscriminateShorthand(cls, function) ==
    [re |-> _generate_re(cls, Group(1, LazyStar(AnyChar)), <<<<>>>>),
     function |-> function, dotall |-> cls.dotall, tokens |-> TRUE]

\* A processor made by OneWayProcessor(pattern, function).
OneWayProcessor(pattern, names, function) ==
    [re |-> Compile(pattern, names), function |-> function, dotall |-> FALSE]

(***************************************************************************)
(* The processors of the model.  The registry holds their keys.            *)
(*   b, c, d  the processors of the test class Automatic                   *)
(*   i        a handler whose output is the span it was given              *)
(*   j        a second processor for the span of i, with another output    *)
(*   o        a handler whose output is a lead-out without a lead-in       *)
(*   k        a signature-derived processor for k(kw="b", **kwargs), which *)
(*            returns the value of kw                                      *)
(*   m        a handler that takes any keyword and emits the markup of k   *)
(* and two that take no part in collective_sub:                            *)
(*   w        OneWayProcessor('(?P<n0>a)?(b)', w) for w(p, n0="D",         *)
(*            **kwargs), which returns p and n0 joined                     *)
(*   g        TwoWaySignatureShorthand(g) for g(a, z="1", b="2"), which    *)
(*            returns a, z and b joined                                    *)
(* and, for the other specifications:                                      *)
(*   f        SignatureShorthand(f) for f(arg, kw0=1, kw1=None), which     *)
(*            returns arg, kw0 and kw1 joined                              *)
(*   h        TwoWaySignatureShorthand(h) for h(), which returns r         *)
(*   t        TwoWaySignatureShorthand(a) for a(v0, v1=None), which raises *)
(*            NotImplementedError                                          *)
(*   e        a handler that raises NotImplementedError                    *)
(*   p        a processor whose pattern, (p, does not compile              *)
(*   a        SingleCharacter('a', lambda: 'x')                            *)
(*   F        IndiscriminateShorthand(f) for the master function of the    *)
(*            tests, which takes any values and answers by the first       *)
(*   N        IndiscriminateShorthand(f) for f(name), which returns e and  *)
(*            the name                                                     *)
(*   sb, sc, sd, se  SignatureShorthand of b(kw=None), c(arg, kw=None),    *)
(*            d() and e() of the tests, with the answers of F              *)
(*   sn       SignatureShorthand of n(), which emits nested markup,        *)
(*            {{d{{e}}}}                                                   *)
(*   r        DelimitedShorthand('(r)', lambda *_: 'x{{r}}'), whose output  *)
(*            holds its own span and more                                  *)
(*   A, B, C  AutoRegisteringProcessor('a', lambda: 'A'), ('b', lambda:    *)
(*            'B') and ('.', lambda: 'C') of the tests                     *)
(*   v        Custom('(b)', lambda *_: 'w'): the pattern of b in another   *)
(*            class, with another output                                   *)
(***************************************************************************)
Keys == {"b", "c", "d", "i", "j", "o", "k", "m"}

KwName == <<"k", "w">>
GroupName == <<"n", "0">>

\* The answers of the handlers of the tests of recursion.
responses ==
    [name \in {<<"b">>, <<"c">>, <<"d">>, <<"e">>} |->
        CASE name = <<"b">> -> <<>>
          [] name = <<"c">> -> <<"y">>
          [] name = <<"d">> -> <<"{", "{", "c", "|", "2", "|", "k", "w", "=", "3",
                                 "}", "}">>
          [] name = <<"e">> -> <<"{", "{", "b", "|", "k", "w", "=", "1", "}", "}">>]

HandlerOf(key) ==
    CASE key = "b" -> Const(<<"b">>, <<"y">>)
      [] key = "c" -> Const(<<"c">>, <<"{", "{", "b", "}", "}">>)
      [] key = "d" -> Const(<<"d">>, <<"{", "{", "c", "}", "}", "{", "{", "c", "}", "}">>)
      [] key = "i" -> Const(<<"i">>, <<"{", "{", "i", "}", "}">>)
      [] key = "j" -> Const(<<"j">>, <<"z">>)
      [] key = "o" -> Const(<<"o">>, <<"}", "}">>)
      [] key = "r" -> Const(<<"r">>, <<"x", "{", "{", "r", "}", "}">>)
      [] key = "k" -> KwHandler(<<"k">>, KwName, <<"b">>)
      [] key = "m" -> Emit(<<"m">>, <<"{", "{", "k", "}", "}">>)
      [] key = "g" -> Join(<<"g">>, <<<<"a">>>>, <<<<"z">>, <<"b">>>>,
                           <<<<"1">>, <<"2">>>>)
      [] key = "w" -> Handler(<<"w">>, "join", <<>>, <<<<"p">>>>, <<GroupName>>,
                              <<<<"D">>>>, FALSE, TRUE)
      [] key = "f" -> Join(<<"f">>, <<<<"a", "r", "g">>>>,
                           <<<<"k", "w", "0">>, <<"k", "w", "1">>>>,
                           <<<<"1">>, <<"N", "o", "n", "e">>>>)
      [] key = "h" -> Fixed(<<"h">>, <<"r">>)
      [] key = "t" -> Handler(<<"a">>, "raise", <<"NotImplementedError">>,
                              <<<<"v", "0">>>>, <<<<"v", "1">>>>, <<None>>,
                              FALSE, FALSE)
      [] key = "e" -> Raise(<<"e">>, "NotImplementedError")
      [] key = "p" -> Const(<<"p">>, <<"y">>)
      [] key = "a" -> Fixed(<<"a">>, <<"x">>)
      [] key = "v" -> Const(<<"v">>, <<"w">>)
      [] key = "F" -> Switch(<<"f">>, responses)
      [] key = "N" -> Prefix(<<"f">>, <<"e">>, <<"n", "a", "m", "e">>)
      [] key = "sb" -> Returning(<<"b">>, responses[<<"b">>], <<>>, <<KwName>>,
                                 <<None>>)
      [] key = "sc" -> Returning(<<"c">>, responses[<<"c">>], <<<<"a", "r", "g">>>>,
                                 <<KwName>>, <<None>>)
      [] key = "sd" -> Fixed(<<"d">>, responses[<<"d">>])
      [] key = "se" -> Fixed(<<"e">>, responses[<<"e">>])
      [] key = "A" -> Fixed(<<"A">>, <<"A">>)
      [] key = "B" -> Fixed(<<"B">>, <<"B">>)
      [] key = "C" -> Fixed(<<"C">>, <<"C">>)
      [] key = "sn" -> Fixed(<<"n">>, <<"{", "{", "d", "{", "{", "e", "}", "}", "}", "}">>)

\* cls(pattern, function) with a literal text as the pattern.
Plain(cls, txt, function) ==
    DelimitedProcessor(cls, Group(1, Text(txt)), <<<<>>>>, function)

\* The class a processor is an instance of, and the text of its pattern.
SignatureKeys == {"k", "g", "f", "h", "t", "sb", "sc", "sd", "se", "sn"}
IndiscriminateKeys == {"F", "N"}
AutoKeys == {"A", "B", "C"}

ClassNameOf(key) ==
    CASE key \in SignatureKeys -> SignatureName
      [] key \in IndiscriminateKeys -> IndiscriminateName
      [] key \in AutoKeys -> AutoName
      [] key = "a" -> "SingleCharacter"
      [] key = "v" -> "Custom"
      [] OTHER -> BaseName

Proc(key) ==
    CASE key \in SignatureKeys ->
            SignatureShorthand(DelimitedShorthand, HandlerOf(key))
      [] key \in IndiscriminateKeys ->
            IndiscriminateShorthand(DelimitedShorthand, HandlerOf(key))
      [] key = "A" -> OneWayProcessor(Lit("a"), <<>>, HandlerOf(key))
      [] key = "B" -> OneWayProcessor(Lit("b"), <<>>, HandlerOf(key))
      [] key = "C" -> OneWayProcessor(AnyChar, <<>>, HandlerOf(key))
      [] key = "a" ->
            DelimitedProcessor(ClassOf("SingleCharacter"), Text(<<"a">>), <<>>,
                               HandlerOf(key))
      [] key = "v" -> Plain(ClassOf("Custom"), <<"b">>, HandlerOf(key))
      [] key = "j" -> Plain(DelimitedShorthand, <<"i">>, HandlerOf(key))
      [] key = "w" -> OneWayProcessor(Cat(<<Opt(Group(1, Lit("a"))),
                                            Group(2, Lit("b"))>>),
                                      <<GroupName, <<>>>>, HandlerOf(key))
      [] OTHER -> Plain(DelimitedShorthand, <<key>>, HandlerOf(key))

\* The registry that Automatic.setUpClass leaves, and the processors that
\* are constructed after it.
Automatic == <<"b", "c", "d">>
Later == Keys \ Range(Automatic)

(***************************************************************************)
(* TwoWaySignatureShorthand: producing markup from values.  A value is an  *)
(* integer or a text, [t, i, s]; str gives its string form.                *)
(***************************************************************************)
IntValue(n) == [t |-> "int", i |-> n, s |-> <<>>]
StrValue(txt) == [t |-> "str", i |-> 0, s |-> txt]

DigitChars == <<"0", "1", "2", "3", "4", "5", "6", "7", "8", "9">>

RECURSIVE Decimal(_)
Decimal(n) ==
    IF n < 10 THEN <<DigitChars[n + 1]>>
    ELSE Decimal(n \div 10) \o <<DigitChars[(n % 10) + 1]>>

str(v) ==
    IF v.t = "str" THEN v.s
    ELSE IF v.i < 0 THEN <<"-">> \o Decimal(-v.i) ELSE Decimal(v.i)

\* The order of Python's strings, by code point, for the characters of names.
CodeOrder ==
    <<"0", "1", "2", "3", "4", "5", "6", "7", "8", "9",
      "A", "B", "C", "D", "E", "F", "G", "H", "I", "J", "K", "L", "M", "N", "O",
      "P", "Q", "R", "S", "T", "U", "V", "W", "X", "Y", "Z", "_",
      "a", "b", "c", "d", "e", "f", "g", "h", "i", "j", "k", "l", "m", "n", "o",
      "p", "q", "r", "s", "t", "u", "v", "w", "x", "y", "z">>

Ord(ch) == CHOOSE i \in 1..Len(CodeOrder) : CodeOrder[i] = ch

RECURSIVE Before(_, _)
Before(a, b) ==
    IF b = <<>> THEN FALSE
    ELSE IF a = <<>> THEN TRUE
    ELSE IF Head(a) = Head(b) THEN Before(Tail(a), Tail(b))
    ELSE Ord(Head(a)) < Ord(Head(b))

\* sorted(named.items()): the names in the order of Python's strings.
RECURSIVE sorted(_)
sorted(names) ==
    IF names = {} THEN <<>>
    ELSE LET Then(first) == <<first>> \o sorted(names \ {first})
         IN  Then(CHOOSE x \in names : \A y \in names \ {x} : Before(x, y))

\* A check that is content with a match of the beginning of the content.
_must_matchPrefix(regex, content) ==
    MatchAt(regex, [s |-> str(content), dotall |-> FALSE], 0, FALSE) # NoMatch

\* _must_match: whether the content passes (else ProductionError is raised).
_must_match(regex, content) == FullMatch(regex, str(content), FALSE)

\* _evert_groups: the pattern every unnamed group must match, and the one
\* every named group must match.
_production_groups_unnamed(cls) == Compile(_unnamed_pattern(cls, 1), <<<<>>>>)
_production_groups_named(cls) == Compile(_named_pattern(cls), <<>>)

\* _separate: the parts with the separator between them.
_separate(parts) == JoinWith(separator, parts)

\* Named values written with separators between them only.
AssignmentsBetween(names, named) ==
    [i \in 1..Len(names) |->
        (IF i = 1 THEN <<>> ELSE separator)
            \o names[i] \o assignment_operator \o str(named[names[i]])]

\* The named values as produce writes them: "name=value" for every name in
\* sorted order, each after a separator.
Assignments(names, named) ==
    [i \in 1..Len(names) |->
        separator \o names[i] \o assignment_operator \o str(named[names[i]])]

\* _production_template.format(*unnamed, named=named)
Format(cls, function, unnamed, named) ==
    cls.lead_in
    \o _separate(<<function.name>>
                 \o [i \in 1..Len(function.req) |-> str(unnamed[i])])
    \o JoinWith(<<>>, Assignments(sorted(DOMAIN named), named))
    \o cls.lead_out

\* The first name, in sorted order, that produce cannot take: one that is
\* not the name of a named group (KeyError) or one whose value fails the
\* check (ProductionError); 0 when there is none.
FirstRefused(cls, function, names, named) ==
    LET Refused(i) ==
            \/ names[i] \notin Range(function.opts)
            \/ ~_must_match(_production_groups_named(cls), named[names[i]])
        Least(S) == IF S = {} THEN 0 ELSE CHOOSE i \in S : \A j \in S : i <= j
    IN  Least({i \in 1..Len(names) : Refused(i)})

\* TwoWaySignatureShorthand.produce, with TwoWayProcessor.produce: the named
\* values are checked first, in sorted order, then the unnamed ones that
\* have a group to go to; the template then needs a value for every group.
Produced(cls, function, unnamed, named, names, refused) ==
    IF refused # 0
    THEN [kind |-> IF names[refused] \in Range(function.opts)
                   THEN "ProductionError" ELSE "KeyError",
          text |-> <<>>]
    ELSE IF \E i \in 1..Min(Len(unnamed), Len(function.req)) :
                ~_must_match(_production_groups_unnamed(cls), unnamed[i])
    THEN [kind |-> "ProductionError", text |-> <<>>]
    ELSE IF Len(unnamed) < Len(function.req)
    THEN [kind |-> "IndexError", text |-> <<>>]
    ELSE [kind |-> "text", text |-> Format(cls, function, unnamed, named)]

produce(cls, function, unnamed, named) ==
    Produced(cls, function, unnamed, named, sorted(DOMAIN named),
             FirstRefused(cls, function, sorted(DOMAIN named), named))

(***************************************************************************)
(* CollectiveProcessor.collective_sub, one activation: the processors are  *)
(* tried in the order of the registry; the first whose pass replaced       *)
(* something and changed the string ends the loop (hit), and the           *)
(* activation then calls cls.collective_sub on the new string: for a       *)
(* delimited class that is DelimitedShorthand.collective_sub with safe at  *)
(* its default, for the others this loop again.  calls are the handler     *)
(* calls of every pass made, changed or not; an error raised by a handler  *)
(* ends the loop.                                                          *)
(***************************************************************************)
RECURSIVE TryFrom(_, _, _, _, _)
\* A loop that the first processor to match ends, changed or not.
TriedFirstMatch(reg, i, string, kwargs, calls, r) ==
    IF r.err # ""
    THEN [hit |-> FALSE, s |-> string, calls |-> calls \o r.calls, err |-> r.err]
    ELSE IF r.n > 0
    THEN [hit |-> r.out # string, s |-> r.out, calls |-> calls \o r.calls,
          err |-> ""]
    ELSE TryFrom(reg, i + 1, string, kwargs, calls \o r.calls)

\* After the pass r of processor i.
Tried(reg, i, string, kwargs, calls, r) ==
    IF r.err # ""
    THEN [hit |-> FALSE, s |-> string, calls |-> calls \o r.calls, err |-> r.err]
    ELSE IF r.n > 0 /\ r.out # string
    THEN [hit |-> TRUE, s |-> r.out, calls |-> calls \o r.calls, err |-> ""]
    ELSE TryFrom(reg, i + 1, string, kwargs, calls \o r.calls)

TryFrom(reg, i, string, kwargs, calls) ==
    IF i > Len(reg)
    THEN [hit |-> FALSE, s |-> string, calls |-> calls, err |-> ""]
    ELSE Tried(reg, i, string, kwargs, calls, subn(Proc(reg[i]), string, kwargs))

TryRegistry(reg, string, kwargs) == TryFrom(reg, 1, string, kwargs, <<>>)

\* A safe check that looks for the lead-in only.
OpenLeadIn(cls, cooked) ==
    Search(_active_delimiters(cls)[1], cooked, cls.dotall) # NoMatch

\* A safe check that takes any text left for open markup.
OpenNonEmpty(cls, cooked) == cooked # <<>>

\* The safe check of DelimitedShorthand.collective_sub: an active lead-in or
\* lead-out somewhere in the cooked string.
Open(cls, cooked) ==
    \E j \in 1..2 : Search(_active_delimiters(cls)[j], cooked, cls.dotall) # NoMatch

(***************************************************************************)
(* The inputs of the model: the texts of at most MaxTokens tokens, and the *)
(* examples of the tests and of the documentation.                         *)
(***************************************************************************)
MaxRegister == 2

\* The limit of the interpreter on nested calls (sys.getrecursionlimit()),
\* scaled down and counted in activations of collective_sub and
\* _collective_sub_unsafe: beyond it a call raises RecursionError.
RecursionLimit == 20
MaxTokens == 2

Tokens == {<<"{", "{">>, <<"}", "}">>, <<"b">>, <<"\\">>}

RECURSIVE TokenTexts(_)
TokenTexts(n) ==
    IF n = 0 THEN {<<>>}
    ELSE LET Longer(shorter) ==
                 shorter \cup {s \o tk : s \in shorter, tk \in Tokens}
         IN  Longer(TokenTexts(n - 1))

\* The module's way of writing a text: one character per element.
Examples ==
    {<<"a">>,
     <<"{", "b", "}", "}">>,
     <<"{", "{", "a", "}", "}">>,
     <<"{", "{", "i", "}", "}">>,
     <<"{", "{", "o", "}", "}">>,
     <<"{", "{", "k", "}", "}">>,
     <<"{", "{", "m", "}", "}">>,
     <<"a", "{", "{", "c", "}", "}", "a">>,
     <<"a", "{", "{", "d", "}", "}", "a">>,
     <<"a", "{", "{", "b", "}", "}", "a", "{", "{", "b", "}", "}", "a">>,
     <<"{", "{", "d", "}", "}", "{", "{", "b", "}", "}">>,
     <<"{", "{", "{", "{", "k", "}", "}", "}", "}">>,
     <<"{", "{", "a", "{", "{", "c", "}", "}", "}", "}">>,
     <<"a", "\\", "{", "\\", "{", "c", "\\", "}", "\\", "}", "a">>,
     <<"{", "{", "\\", "}", "\\", "}", "b", "}", "}">>,
     <<"{", "{", "{", "b", "}", "}">>,
     <<"{", "{", "b", "{", "{", "o", "}", "}">>}

Texts == TokenTexts(MaxTokens) \cup Examples

\* The passthrough values: none; a value for the keyword parameter of k; a
\* value under a name no handler declares; count, which _process takes for
\* the parser; string, the name of a parameter of _collective_sub_unsafe.
ExtraKey == <<"x">>
StringKey == <<"s", "t", "r", "i", "n", "g">>

Kw(name, value) == [k \in {name} |-> value]

Passthroughs ==
    {NoKw, Kw(KwName, <<"y">>), Kw(ExtraKey, <<"X">>), Kw(CountKey, 1),
     Kw(StringKey, <<"X">>)}

KwTexts ==
    {<<"a">>,
     <<"{", "{", "b", "}", "}">>,
     <<"{", "{", "k", "}", "}">>,
     <<"{", "{", "m", "}", "}">>,
     <<"{", "{", "k", "|", "k", "w", "=", "c", "}", "}">>,
     <<"{", "{", "m", "}", "}", "{", "{", "k", "}", "}">>}

\* The calls of collective_sub the model makes.
Inputs ==
    {[text |-> text, safe |-> sf, kw |-> NoKw] : text \in Texts, sf \in BOOLEAN}
    \cup {[text |-> text, safe |-> TRUE, kw |-> kw] :
             text \in KwTexts, kw \in Passthroughs}

NoTarget == [start |-> 0, end |-> 0]
NoResult == [kind |-> "none", text |-> <<>>]
NoGiven == [unnamed |-> <<>>, named |-> NoKw]
NoVariant == [made |-> FALSE, own |-> FALSE, registry |-> <<>>]

\* No call is in progress.
Idle ==
    /\ pc = "idle"
    /\ raw = <<>>
    /\ safe = TRUE
    /\ passthrough = NoKw
    /\ whole = <<>>
    /\ target = NoTarget
    /\ inner = <<>>
    /\ called = <<>>
    /\ result = NoResult
    /\ self = ""
    /\ given = NoGiven
    /\ scope = BaseName
    /\ stack = <<>>
    /\ depth = 0

Init ==
    /\ registry \in {<<>>, Automatic}
    /\ nreg = 0
    /\ Idle
    /\ cache = [name \in ClassNames |->
                    IF name = BaseName THEN Warm(name) ELSE NoCache]
    /\ variant = [name \in VariantNames |-> NoVariant]

\* The text of the pattern that the processor of a key is constructed
\* with; SignatureShorthand derives its own from the name of the handler.
Source(key) ==
    CASE key = "p" -> <<"(", "p">>
      [] key = "a" -> <<"a">>
      [] key = "v" -> <<"(", "b", ")">>
      [] key \in SignatureKeys -> HandlerOf(key).name
      [] key \in IndiscriminateKeys -> <<"(", ".", "*", "?", ")">>
      [] key = "A" -> <<"a">>
      [] key = "B" -> <<"b">>
      [] key = "C" -> <<".">>
      [] OTHER -> <<"(", key, ")">>

\* re.compile: a pattern whose parentheses do not balance is refused.
RECURSIVE Balanced(_, _)
Balanced(txt, opened) ==
    IF txt = <<>> THEN opened = 0
    ELSE IF Head(txt) = "\\" /\ Len(txt) >= 2
    THEN Balanced(SubSeq(txt, 3, Len(txt)), opened)
    ELSE IF Head(txt) = "(" THEN Balanced(Tail(txt), opened + 1)
    ELSE IF Head(txt) = ")" THEN opened > 0 /\ Balanced(Tail(txt), opened - 1)
    ELSE Balanced(Tail(txt), opened)

\* A re.compile that takes any pattern.
CompilesAnything(key) == TRUE

Compiles(key) == Balanced(Source(key), 0)

\* A registry of its own for every class, empty in a class that has
\* constructed nothing.
RegistryPerClass(name) ==
    IF name \in VariantNames /\ variant[name].own
    THEN variant[name].registry
    ELSE IF name = BaseName THEN registry ELSE <<>>

\* The registry that cls.registry is: the list of the class itself when it
\* has one, else the list of CollectiveProcessor.
RegistryOf(name) ==
    IF name \in VariantNames /\ variant[name].own
    THEN variant[name].registry
    ELSE registry

\* An append that leaves a registry that has the processor as it is.
AppendedOnce(name, key) ==
    IF key \in Range(RegistryOf(name))
    THEN UNCHANGED <<registry, variant>>
    ELSE IF name \in VariantNames /\ variant[name].own
    THEN /\ variant' = [variant EXCEPT ![name].registry = Append(@, key)]
         /\ UNCHANGED registry
    ELSE /\ registry' = Append(registry, key)
         /\ UNCHANGED variant

\* self.registry.append(self)
Appended(name, key) ==
    IF name \in VariantNames /\ variant[name].own
    THEN /\ variant' = [variant EXCEPT ![name].registry = Append(@, key)]
         /\ UNCHANGED registry
    ELSE /\ registry' = Append(registry, key)
         /\ UNCHANGED variant

\* SignatureShorthand.__init__ asks the class for the active forms of the
\* assignment operator and of the separator.
SignatureCached(name, cls, c) ==
    Memoized(c, <<Unescaped(name, cls, ReEscape(assignment_operator)),
                  Unescaped(name, cls, ReEscape(separator))>>)

\* Whether the handler takes any number of values, *args or **kwargs.
Variadic(fn) == fn.varargs \/ fn.varkw

\* An __init__ that refuses to derive a pattern from a variadic handler.
ConstructFixedArity(key) ==
    /\ pc = "idle"
    /\ nreg < MaxRegister
    /\ ClassNameOf(key) \in VariantNames => variant[ClassNameOf(key)].made
    /\ nreg' = nreg + 1
    /\ cache' = IF key \in SignatureKeys
                THEN [cache EXCEPT ![SignatureName] =
                        SignatureCached(SignatureName, ClassOf(SignatureName), @)]
                ELSE cache
    /\ IF Compiles(key) /\ ~(key \in SignatureKeys /\ Variadic(HandlerOf(key)))
       THEN /\ Appended(ClassNameOf(key), key)
            /\ UNCHANGED <<pc, result>>
       ELSE /\ pc' = "raised"
            /\ result' = [kind |-> "error", text |-> <<>>]
            /\ UNCHANGED <<registry, variant>>
    /\ UNCHANGED <<raw, safe, passthrough, whole, target, inner, called, self,
                   given, scope>>
    /\ UNCHANGED <<stack, depth>>

\* __init__ of a processor: the pattern is compiled, which may fail, and
\* then the new processor is appended to the registry of its class.  With
\* at = "idle" it is a call of the class, whose value the model does not
\* keep; else it is made by a decorator that returns value.
Constructed(key, at, value) ==
    /\ pc = "idle"
    /\ nreg < MaxRegister
    /\ ClassNameOf(key) \in VariantNames => variant[ClassNameOf(key)].made
    /\ nreg' = nreg + 1
    /\ cache' = IF key \in SignatureKeys
                THEN [cache EXCEPT ![SignatureName] =
                        SignatureCached(SignatureName, ClassOf(SignatureName), @)]
                ELSE cache
    /\ IF Compiles(key)
       THEN /\ Appended(ClassNameOf(key), key)
            /\ pc' = at
            /\ result' = value
       ELSE /\ pc' = "raised"
            /\ result' = [kind |-> "error", text |-> <<>>]
            /\ UNCHANGED <<registry, variant>>
    /\ UNCHANGED <<raw, safe, passthrough, whole, target, inner, called, self,
                   given, scope>>
    /\ UNCHANGED <<stack, depth>>

Construct(key) == Constructed(key, "idle", NoResult)

\* What a decorator returns: the function it was given, or the processor
\* made from it.
Function(key) == [kind |-> "function", text |-> HandlerOf(key).name]
Processor(key) == [kind |-> "processor", text |-> <<key>>]

\* _FunctionLikeDelimitedShorthand.swallow: return cls(function).
swallow(key) == Constructed(key, "swallowed", Processor(key))

\* A register that returns what swallow returns.
registerSwallowed(key) == Constructed(key, "registered", Processor(key))

\* _FunctionLikeDelimitedShorthand.register: cls.swallow(function), and
\* then return function.
register(key) == Constructed(key, "registered", Function(key))

\* Every processor of Later is constructed once.
Register(key) ==
    /\ key \notin Range(registry)
    /\ Construct(key)

\* DelimitedShorthand.collective_sub is called.  Its keywords go on to
\* _collective_sub_unsafe(string, **kwargs), a call that Python rejects when
\* one of them is named string.
CollectiveSub(name, text, sf, kw) ==
    /\ pc = "idle"
    /\ name \in VariantNames => variant[name].made
    /\ scope' = name
    /\ raw' = text
    /\ safe' = sf
    /\ passthrough' = kw
    /\ whole' = text
    /\ target' = NoTarget
    /\ inner' = <<>>
    /\ called' = <<>>
    /\ IF StringKey \in DOMAIN kw
       THEN /\ pc' = "raised"
            /\ result' = [kind |-> "TypeError", text |-> <<>>]
       ELSE /\ pc' = "unsafe"
            /\ result' = NoResult
    /\ stack' = <<>>
    /\ depth' = IF StringKey \in DOMAIN kw THEN 1 ELSE 2
    /\ UNCHANGED <<registry, nreg, self, given, cache, variant>>

\* The call ends with an error, which no activation catches.
Raising(kind, text) ==
    /\ pc' = "raised"
    /\ result' = [kind |-> kind, text |-> text]
    /\ UNCHANGED <<whole, target, inner, stack, depth>>

\* The safe check of the activation of collective_sub that is running: the
\* one the caller made has the safe of the caller, and one that
\* CollectiveProcessor.collective_sub made, as cls.collective_sub(string,
\* **kwargs), has the default, which is on.
Safe == stack = <<>> => safe

\* A splice that loses the text after the span.
ResumedTruncated(f) ==
    IF whole = SubSeq(f.whole, f.target.start + 1, f.target.end)
    THEN Raising("UnknownShorthandError", whole)
    ELSE IF f.depth + 1 > RecursionLimit
    THEN Raising("RecursionError", <<>>)
    ELSE /\ pc' = "unsafe"
         /\ whole' = SubSeq(f.whole, 1, f.target.start) \o whole
         /\ target' = f.target
         /\ inner' = whole
         /\ stack' = Tail(stack)
         /\ depth' = f.depth + 1
         /\ UNCHANGED result

\* The activation f of _collective_sub_unsafe has the fully resolved
\* replacement of its target, which is whole: it raises for a replacement
\* that is the span itself, and else splices the replacement in and calls
\* itself on the new string.
Resumed(f) ==
    IF whole = SubSeq(f.whole, f.target.start + 1, f.target.end)
    THEN Raising("UnknownShorthandError", whole)
    ELSE IF f.depth + 1 > RecursionLimit
    THEN Raising("RecursionError", <<>>)
    ELSE /\ pc' = "unsafe"
         /\ whole' = SubSeq(f.whole, 1, f.target.start) \o whole
                       \o SubSeq(f.whole, f.target.end + 1, Len(f.whole))
         /\ target' = f.target
         /\ inner' = whole
         /\ stack' = Tail(stack)
         /\ depth' = f.depth + 1
         /\ UNCHANGED result

\* _collective_sub_unsafe, one activation: with a target m, the span goes to
\* CollectiveProcessor.collective_sub; with none, the string is returned to
\* collective_sub, which makes its safe check and raises or returns, to the
\* caller or to the activation that waits for it.
Targeted(cls, m) ==
    IF m # NoMatch
    THEN /\ pc' = "collective"
         /\ target' = [start |-> m.start, end |-> m.end]
         /\ inner' = MatchText(whole, m)
         /\ UNCHANGED <<result, whole, stack, depth>>
    ELSE IF Safe /\ Open(cls, whole)
    THEN Raising("OpenShorthandError", <<>>)
    ELSE IF stack = <<>>
    THEN /\ pc' = "returned"
         /\ result' = [kind |-> "text", text |-> whole]
         /\ UNCHANGED <<whole, target, inner, stack, depth>>
    ELSE Resumed(Head(stack))

\* The search with the target finder that the cache c of the class holds,
\* and the cache after it: the safe check asks for the active delimiters.
Sought(name, cls, c, m) ==
    /\ Targeted(cls, m)
    /\ cache' = [cache EXCEPT ![name] =
                    IF m = NoMatch /\ Safe
                    THEN ActiveDelimitersCached(name, cls, c) ELSE c]

Seeking(name, cls, c) ==
    Sought(name, cls, c,
           Search(c[Key("_targetfinder", name, <<>>)], whole, cls.dotall))

Unsafe ==
    /\ pc = "unsafe"
    /\ Seeking(scope, ClassOf(scope),
               TargetfinderCached(scope, ClassOf(scope), cache[scope]))
    /\ UNCHANGED <<registry, nreg, raw, safe, passthrough, called, self, given,
                   scope, variant>>

\* An activation that takes an unchanged span for resolved and goes on.
LoopedNoRaise(r) ==
    /\ called' = called \o r.calls
    /\ IF r.err # ""
       THEN Raising(r.err, <<>>)
       ELSE IF ~r.hit
       THEN /\ pc' = "unsafe"
            /\ UNCHANGED <<whole, target, inner, stack, depth, result>>
       ELSE IF depth + 3 > RecursionLimit
       THEN Raising("RecursionError", <<>>)
       ELSE /\ pc' = "unsafe"
            /\ stack' = <<[whole |-> whole, target |-> target,
                           depth |-> depth]>> \o stack
            /\ whole' = r.s
            /\ target' = NoTarget
            /\ inner' = <<>>
            /\ depth' = depth + 3
            /\ UNCHANGED result

\* An activation that splices the output of the first hit in without
\* resolving it.
LoopedNoRecursion(r) ==
    /\ called' = called \o r.calls
    /\ IF r.err # ""
       THEN Raising(r.err, <<>>)
       ELSE IF ~r.hit
       THEN Raising("UnknownShorthandError", inner)
       ELSE /\ pc' = "unsafe"
            /\ inner' = r.s
            /\ whole' = SubSeq(whole, 1, target.start) \o r.s
                          \o SubSeq(whole, target.end + 1, Len(whole))
            /\ UNCHANGED <<target, stack, depth, result>>

\* An activation that takes the error of a handler for a span that no
\* processor changed.
LoopedConverting(r) ==
    /\ called' = called \o r.calls
    /\ IF ~r.hit
       THEN Raising("UnknownShorthandError", inner)
       ELSE IF depth + 3 > RecursionLimit
       THEN Raising("RecursionError", <<>>)
       ELSE /\ pc' = "unsafe"
            /\ stack' = <<[whole |-> whole, target |-> target,
                           depth |-> depth]>> \o stack
            /\ whole' = r.s
            /\ target' = NoTarget
            /\ inner' = <<>>
            /\ depth' = depth + 3
            /\ UNCHANGED result

\* An activation that, after a hit, tries the processors on the new string
\* itself, as CollectiveProcessor.collective_sub would if cls.collective_sub
\* were not overridden.
LoopedRegistryOrder(r) ==
    /\ called' = called \o r.calls
    /\ IF r.err # ""
       THEN Raising(r.err, <<>>)
       ELSE IF ~r.hit
       THEN IF inner = SubSeq(whole, target.start + 1, target.end)
            THEN Raising("UnknownShorthandError", inner)
            ELSE /\ pc' = "unsafe"
                 /\ whole' = SubSeq(whole, 1, target.start) \o inner
                               \o SubSeq(whole, target.end + 1, Len(whole))
                 /\ inner' = <<>>
                 /\ UNCHANGED <<result, target, stack, depth>>
       ELSE /\ inner' = r.s
            /\ UNCHANGED <<pc, result, whole, target, stack, depth>>

\* An activation that has a guard: it raises for an output that holds the
\* span it was given.
LoopedGuarded(r) ==
    /\ called' = called \o r.calls
    /\ IF r.err # ""
       THEN Raising(r.err, <<>>)
       ELSE IF ~r.hit
       THEN Raising("UnknownShorthandError", inner)
       ELSE IF \E i \in 1..(Len(r.s) - Len(inner) + 1) :
                  SubSeq(r.s, i, i + Len(inner) - 1) = inner
       THEN Raising("UnknownShorthandError", inner)
       ELSE IF depth + 3 > RecursionLimit
       THEN Raising("RecursionError", <<>>)
       ELSE /\ pc' = "unsafe"
            /\ stack' = <<[whole |-> whole, target |-> target,
                           depth |-> depth]>> \o stack
            /\ whole' = r.s
            /\ target' = NoTarget
            /\ inner' = <<>>
            /\ depth' = depth + 3
            /\ UNCHANGED result

\* CollectiveProcessor.collective_sub, one activation on the span, r being
\* the outcome of its loop.  After a hit it returns what cls.collective_sub
\* makes of the new string, and that is collective_sub of the delimited
\* class, which resolves the string innermost span first and checks it;
\* after a loop without a hit it returns the span, for which
\* _collective_sub_unsafe raises.
Looped(r) ==
    /\ called' = called \o r.calls
    /\ IF r.err # ""
       THEN Raising(r.err, <<>>)
       ELSE IF ~r.hit
       THEN Raising("UnknownShorthandError", inner)
       ELSE IF depth + 3 > RecursionLimit
       THEN Raising("RecursionError", <<>>)
       ELSE /\ pc' = "unsafe"
            /\ stack' = <<[whole |-> whole, target |-> target,
                           depth |-> depth]>> \o stack
            /\ whole' = r.s
            /\ target' = NoTarget
            /\ inner' = <<>>
            /\ depth' = depth + 3
            /\ UNCHANGED result

Collective ==
    /\ pc = "collective"
    /\ Looped(TryRegistry(RegistryOf(scope), inner, passthrough))
    /\ UNCHANGED <<registry, nreg, raw, safe, passthrough, self, given, scope,
                   cache, variant>>

\* The caller has the text or the error; the next call can be made.
Return ==
    /\ pc \in {"returned", "raised", "registered", "swallowed"}
    /\ pc' = "idle"
    /\ raw' = <<>>
    /\ safe' = TRUE
    /\ passthrough' = NoKw
    /\ whole' = <<>>
    /\ target' = NoTarget
    /\ inner' = <<>>
    /\ called' = <<>>
    /\ result' = NoResult
    /\ self' = ""
    /\ given' = NoGiven
    /\ scope' = BaseName
    /\ stack' = <<>>
    /\ depth' = 0
    /\ UNCHANGED <<registry, nreg, cache, variant>>

Next ==
    \/ \E key \in Later : Register(key)
    \/ \E in \in Inputs : CollectiveSub(BaseName, in.text, in.safe, in.kw)
    \/ Unsafe
    \/ Collective
    \/ Return

Spec == Init /\ [][Next]_vars

(***************************************************************************)
(* A call of subn on a single processor: w over the subjects of at most    *)
(* MaxSubject characters, k over texts of one or two spans.                *)
(***************************************************************************)
MaxSubject == 4

Alphabet == {"a", "b", "c"}

RECURSIVE Subjects(_)
Subjects(n) ==
    IF n = 0 THEN {<<>>}
    ELSE LET Longer(shorter) ==
                 shorter \cup {Append(s, ch) : s \in shorter, ch \in Alphabet}
         IN  Longer(Subjects(n - 1))

Spans ==
    {<<"{", "{", "k", "}", "}">>,
     <<"{", "{", "k", "|", "k", "w", "=", "c", "}", "}">>}

\* Markup for the master function: with a keyword, without, and with
\* nothing but a keyword.
MasterSpans ==
    {<<"{", "{", "c", "|", "1", "|", "k", "w", "=", "2", "}", "}">>,
     <<"{", "{", "b", "}", "}">>,
     <<"{", "{", "k", "w", "=", "1", "}", "}">>}

SubnInputs ==
    {[key |-> "w", text |-> text, kw |-> kw] :
        text \in Subjects(MaxSubject),
        kw \in {NoKw, Kw(ExtraKey, <<"X">>), Kw(CountKey, 1)}}
    \cup {[key |-> "k", text |-> text, kw |-> kw] :
             text \in Spans \cup {s \o <<"a">> \o t : s \in Spans, t \in Spans},
             kw \in {NoKw, Kw(KwName, <<"y">>), Kw(CountKey, 1)}}
    \cup {[key |-> "F", text |-> text, kw |-> kw] :
             text \in MasterSpans
                       \cup {s \o <<"a">> \o t : s \in MasterSpans, t \in MasterSpans},
             kw \in {NoKw, Kw(KwName, <<"y">>), Kw(CountKey, 1)}}

\* The pass r is over: subn returns the new string, unless a handler raised.
Passed(r) ==
    /\ called' = r.calls
    /\ IF r.err # ""
       THEN /\ pc' = "raised"
            /\ result' = [kind |-> r.err, text |-> <<>>]
       ELSE /\ pc' = "returned"
            /\ result' = [kind |-> "text", text |-> r.out]

\* OneWayProcessor.subn is called on the processor of the key.
Subn(key, text, kw) ==
    /\ pc = "idle"
    /\ self' = key
    /\ raw' = text
    /\ passthrough' = kw
    /\ Passed(subn(Proc(key), text, kw))
    /\ UNCHANGED <<registry, nreg, safe, whole, target, inner, given, scope,
                   cache, variant>>
    /\ UNCHANGED <<stack, depth>>

InitSub == Init /\ registry = <<>>

NextSub ==
    \/ \E in \in SubnInputs : Subn(in.key, in.text, in.kw)
    \/ Return

SpecSub == InitSub /\ [][NextSub]_vars

(***************************************************************************)
(* A call of produce on the two-way processor g, with at most              *)
(* MaxPositional unnamed values and with named values for some of z, b     *)
(* and q (which g does not have), and then a call of subn on what it       *)
(* produced.                                                               *)
(***************************************************************************)
MaxPositional == 2

Values ==
    {StrValue(<<"x">>), StrValue(<<"a", "|", "b">>), StrValue(<<"z", "=", "1">>),
     StrValue(<<>>), IntValue(7)}

NamedValues == {StrValue(<<"x">>), StrValue(<<"a", "|", "b">>), IntValue(7)}

GivenNames == {<<"z">>, <<"b">>, <<"q">>}

RECURSIVE Tuples(_)
Tuples(n) ==
    IF n = 0 THEN {<<>>}
    ELSE LET Longer(shorter) ==
                 shorter \cup {Append(t, v) : t \in shorter, v \in Values}
         IN  Longer(Tuples(n - 1))

Nameds == UNION {[names -> NamedValues] : names \in SUBSET GivenNames}

\* produce has returned the text r.text or raised r.kind.
Answered(r) ==
    /\ result' = r
    /\ pc' = IF r.kind = "text" THEN "produced" ELSE "raised"

\* TwoWaySignatureShorthand.produce is called on the processor of the key.
Produce(key, unnamed, named) ==
    /\ pc = "idle"
    /\ self' = key
    /\ given' = [unnamed |-> unnamed, named |-> named]
    /\ Answered(produce(DelimitedShorthand, HandlerOf(key), unnamed, named))
    /\ UNCHANGED <<registry, nreg, raw, safe, passthrough, whole, target, inner,
                   called, scope, cache, variant>>
    /\ UNCHANGED <<stack, depth>>

\* subn is called on the same processor for the text it produced.
Resolve ==
    /\ pc = "produced"
    /\ raw' = result.text
    /\ Passed(subn(Proc(self), result.text, NoKw))
    /\ UNCHANGED <<registry, nreg, safe, passthrough, whole, target, inner, self,
                   given, scope, cache, variant>>
    /\ UNCHANGED <<stack, depth>>

\* The calls of produce in the tests of the producing module, on h and on
\* a(v0, v1=None), and some with too few and too many values.
ProduceExamples ==
    {[key |-> "h", unnamed |-> <<>>, named |-> NoKw]}
    \cup {[key |-> "t", unnamed |-> unnamed, named |-> named] :
             unnamed \in {<<>>, <<IntValue(1)>>, <<IntValue(1), IntValue(2)>>},
             named \in {NoKw, Kw(<<"v", "1">>, IntValue(2))}}

NextProduce ==
    \/ \E unnamed \in Tuples(MaxPositional), named \in Nameds :
           Produce("g", unnamed, named)
    \/ \E in \in ProduceExamples : Produce(in.key, in.unnamed, in.named)
    \/ Resolve
    \/ Return

SpecProduce == InitSub /\ [][NextProduce]_vars

(***************************************************************************)
(* Calls of SignatureShorthand.collective_sub with the processor of        *)
(* f(arg, kw0=1, kw1=None) alone in the registry, as in the tests of the   *)
(* inspecting module: the texts are {{f, then at most MaxParts parts, each *)
(* after a separator, then }}.                                             *)
(***************************************************************************)
MaxParts == 3

RequiredValues == {<<>>, <<"1">>, <<"1", "=", "1">>}
OptionalValues == {<<"1">>, <<"a", "=", "1">>}

Contents ==
    RequiredValues
    \cup {name \o assignment_operator \o value :
             name \in Range(HandlerOf("f").opts), value \in OptionalValues}
    \cup {<<"a", "r", "g", "=", "1">>, <<"k", "w", "2", "=", "1">>}

RECURSIVE PartLists(_)
PartLists(n) ==
    IF n = 0 THEN {<<>>}
    ELSE LET Longer(shorter) ==
                 shorter \cup {Append(ps, c) : ps \in shorter, c \in Contents}
         IN  Longer(PartLists(n - 1))

\* The markup of a handler's name and the parts, each after a separator.
Markup(cls, name, parts) ==
    cls.lead_in
    \o JoinWith(<<>>, <<name>> \o [i \in 1..Len(parts) |-> separator \o parts[i]])
    \o cls.lead_out

SignedTexts ==
    {Markup(DelimitedShorthand, <<"f">>, parts) : parts \in PartLists(MaxParts)}

\* After registry.clear() and SignatureShorthand(f).
InitSigned ==
    /\ registry = <<"f">>
    /\ nreg = 1
    /\ Idle
    /\ cache = [name \in ClassNames |->
                    IF name = SignatureName
                    THEN SignatureCached(name, ClassOf(name), NoCache)
                    ELSE NoCache]
    /\ variant = [name \in VariantNames |-> NoVariant]

NextSigned ==
    \/ \E text \in SignedTexts : CollectiveSub(SignatureName, text, TRUE, NoKw)
    \/ Unsafe
    \/ Collective
    \/ Return

SpecSigned == InitSigned /\ [][NextSigned]_vars

(***************************************************************************)
(* Calls of collective_sub on texts with escaped delimiters, in            *)
(* DelimitedShorthand with the processors of Automatic and in              *)
(* SingleCharacter, the class of the tests with the delimiters { and },    *)
(* with the processor of a.  The texts are those of at most MaxEscaped     *)
(* tokens: a delimiter, an escaped delimiter character, a name, and for    *)
(* SingleCharacter the escape token.                                       *)
(***************************************************************************)
MaxEscaped == 4

EscapeTokens(name) ==
    IF name = "SingleCharacter"
    THEN {<<"{">>, <<"}">>, <<"a">>, <<"\\">>}
    ELSE {<<"{", "{">>, <<"}", "}">>, <<"b">>, <<"\\", "{">>, <<"\\", "}">>}

RECURSIVE EscapeTexts(_, _)
EscapeTexts(name, n) ==
    IF n = 0 THEN {<<>>}
    ELSE LET Longer(shorter) ==
                 shorter \cup {s \o tk : s \in shorter, tk \in EscapeTokens(name)}
         IN  Longer(EscapeTexts(name, n - 1))

EscapeExamples(name) ==
    IF name = "SingleCharacter"
    THEN {<<"\\", "{", "a", "\\", "}">>,
          <<"\\", "\\", "{", "a", "\\", "\\", "}">>,
          <<"{", "\\", "{", "a", "\\", "}", "}">>,
          <<"\\", "{", "{", "a", "}", "\\", "}">>}
    ELSE {<<"a", "\\", "{", "\\", "{", "c", "\\", "}", "\\", "}", "a">>,
          <<"{", "{", "\\", "}", "\\", "}", "b", "}", "}">>,
          <<"{", "{", "\\", "{", "\\", "{", "b", "}", "}">>}

EscapeInputs ==
    UNION {{[scope |-> name, text |-> text, safe |-> sf] :
               text \in EscapeTexts(name, MaxEscaped) \cup EscapeExamples(name),
               sf \in BOOLEAN} :
           name \in {BaseName, "SingleCharacter"}}

\* After Automatic.setUpClass and SingleCharacter('a', lambda: 'x'), and a
\* first call in either class.
InitEscape ==
    /\ registry = Automatic
    /\ nreg = 4
    /\ Idle
    /\ cache = [name \in ClassNames |->
                    IF name \in {BaseName, "SingleCharacter"}
                    THEN Warm(name) ELSE NoCache]
    /\ variant = [name \in VariantNames |->
                      IF name = "SingleCharacter"
                      THEN [made |-> TRUE, own |-> TRUE, registry |-> <<"a">>]
                      ELSE NoVariant]

NextEscape ==
    \/ \E in \in EscapeInputs : CollectiveSub(in.scope, in.text, in.safe, NoKw)
    \/ Unsafe
    \/ Collective
    \/ Return

SpecEscape == InitEscape /\ [][NextEscape]_vars

(***************************************************************************)
(* Scopes.  From a registry that is empty and caches that are empty,       *)
(* variant classes are made, with a registry of their own or without,      *)
(* processors are constructed in the base class and in the variants, one   *)
(* of them with a pattern that does not compile and one with a handler     *)
(* that raises, registries are cleared, and texts are resolved in each     *)
(* scope.                                                                  *)
(***************************************************************************)
ScopeKeys == {"b", "e", "p", "h", "a", "v"}

ScopeNames == {BaseName} \cup VariantNames

ScopeTexts(name) ==
    IF name = "SingleCharacter"
    THEN {<<"{", "a", "}">>}
    ELSE {<<"{", "{", "b", "}", "}">>, <<"{", "{", "e", "}", "}">>}

ScopeInputs ==
    UNION {{[scope |-> name, text |-> text] : text \in ScopeTexts(name)} :
              name \in ScopeNames}

\* The variants that are made: SingleCharacter has a registry of its own,
\* Custom has one or shares that of its parent.
VariantChoices ==
    {[name |-> "SingleCharacter", new_registry |-> TRUE]}
    \cup {[name |-> "Custom", new_registry |-> b] : b \in BOOLEAN}

InitScopes ==
    /\ registry = <<>>
    /\ nreg = 0
    /\ Idle
    /\ cache = [name \in ClassNames |-> NoCache]
    /\ variant = [name \in VariantNames |-> NoVariant]

\* cls.variant_class(new_registry=..., **kwargs): the new class has the
\* attributes of kwargs, an empty _cache of its own and, when new_registry
\* is on, an empty registry of its own.
VariantClass(name, new_registry) ==
    /\ pc = "idle"
    /\ ~variant[name].made
    /\ variant' = [variant EXCEPT ![name] =
                      [made |-> TRUE, own |-> new_registry, registry |-> <<>>]]
    /\ cache' = [cache EXCEPT ![name] = NoCache]
    /\ UNCHANGED <<registry, nreg, pc, raw, safe, passthrough, whole, target,
                   inner, called, result, self, given, scope>>
    /\ UNCHANGED <<stack, depth>>

\* cls.registry.clear()
Clear(name) ==
    /\ pc = "idle"
    /\ name \in VariantNames => variant[name].made
    /\ IF name \in VariantNames /\ variant[name].own
       THEN /\ variant' = [variant EXCEPT ![name].registry = <<>>]
            /\ UNCHANGED registry
       ELSE /\ registry' = <<>>
            /\ UNCHANGED variant
    /\ UNCHANGED <<nreg, pc, raw, safe, passthrough, whole, target, inner,
                   called, result, self, given, scope, cache>>
    /\ UNCHANGED <<stack, depth>>

NextScopes ==
    \/ \E v \in VariantChoices : VariantClass(v.name, v.new_registry)
    \/ \E key \in ScopeKeys : Construct(key)
    \/ \E name \in ScopeNames : Clear(name)
    \/ \E in \in ScopeInputs : CollectiveSub(in.scope, in.text, TRUE, NoKw)
    \/ \E key \in {"b", "e"} :
           /\ key \in Range(registry)
           /\ Subn(key, Markup(DelimitedShorthand, <<key>>, <<>>), NoKw)
    \/ ("h" \in Range(registry) /\ Produce("h", <<>>, NoKw))
    \/ Resolve
    \/ Unsafe
    \/ Collective
    \/ Return

SpecScopes == InitScopes /\ [][NextScopes]_vars

(***************************************************************************)
(* The classes of the inspecting module: the registry that the tests of    *)
(* recursion build (the master function alone, or the four functions b, c, *)
(* d and e), decorators that add to it, and calls of collective_sub on     *)
(* SignatureShorthand and on IndiscriminateShorthand.                      *)
(***************************************************************************)
\* The registries of the tests, and the functions that are decorated.
Recursing == {<<>>, <<"F">>, <<"sb", "sc", "sd", "se">>}
Decorated == {"N", "sn", "F"}

InspectingTexts ==
    {<<"a", "{", "{", "c", "|", "1", "|", "k", "w", "=", "2", "}", "}", "e">>,
     <<"{", "{", "b", "|", "k", "w", "=", "b", "}", "}", "{", "{", "d", "}", "}">>,
     <<"{", "{", "d", "}", "}", "{", "{", "b", "|", "k", "w", "=", "b", "}", "}">>,
     <<"{", "{", "d", "{", "{", "e", "}", "}", "}", "}">>,
     <<"{", "{", "a", "{", "{", "c", "}", "}", "}", "}">>,
     <<"t", "{", "{", "x", "}", "}", "t">>,
     <<"{", "{", "n", "}", "}">>}

InitInspecting ==
    /\ registry \in Recursing
    /\ nreg = 0
    /\ Idle
    /\ cache = [name \in ClassNames |-> NoCache]
    /\ variant = [name \in VariantNames |-> NoVariant]

NextInspecting ==
    \/ \E key \in Decorated : key \notin Range(registry) /\ register(key)
    \/ \E key \in Decorated : key \notin Range(registry) /\ swallow(key)
    \/ \E name \in {SignatureName, IndiscriminateName} : Clear(name)
    \/ \E name \in {SignatureName, IndiscriminateName}, text \in InspectingTexts :
           CollectiveSub(name, text, TRUE, NoKw)
    \/ Unsafe
    \/ Collective
    \/ Return

SpecInspecting == InitInspecting /\ [][NextInspecting]_vars

(***************************************************************************)
(* CollectiveProcessor.collective_sub on a class that does not override    *)
(* it, AutoRegisteringProcessor: every activation tries the processors on  *)
(* the whole string and, after a hit, calls itself on the new string.      *)
(***************************************************************************)
\* cls.collective_sub(string, **kwargs) is called.
PlainSub(name, text, kw) ==
    /\ pc = "idle"
    /\ scope' = name
    /\ raw' = text
    /\ passthrough' = kw
    /\ inner' = text
    /\ whole' = <<>>
    /\ target' = NoTarget
    /\ called' = <<>>
    /\ result' = NoResult
    /\ pc' = "plain"
    /\ stack' = <<>>
    /\ depth' = 1
    /\ UNCHANGED <<registry, nreg, safe, self, given, cache, variant>>

\* An activation that returns the new string after a hit.
RepeatedOnce(r) ==
    /\ called' = called \o r.calls
    /\ IF r.err # ""
       THEN Raising(r.err, <<>>)
       ELSE /\ pc' = "returned"
            /\ result' = [kind |-> "text", text |-> IF r.hit THEN r.s ELSE inner]
            /\ UNCHANGED <<whole, target, inner, stack, depth>>

\* One activation, r being the outcome of its loop: without a hit it
\* returns the string, and every activation below it returns the same.
Repeated(r) ==
    /\ called' = called \o r.calls
    /\ IF r.err # ""
       THEN Raising(r.err, <<>>)
       ELSE IF ~r.hit
       THEN /\ pc' = "returned"
            /\ result' = [kind |-> "text", text |-> inner]
            /\ UNCHANGED <<whole, target, inner, stack, depth>>
       ELSE IF depth + 1 > RecursionLimit
       THEN Raising("RecursionError", <<>>)
       ELSE /\ inner' = r.s
            /\ depth' = depth + 1
            /\ UNCHANGED <<pc, result, whole, target, stack>>

CollectivePlain ==
    /\ pc = "plain"
    /\ Repeated(TryRegistry(RegistryOf(scope), inner, passthrough))
    /\ UNCHANGED <<registry, nreg, raw, safe, passthrough, self, given, scope,
                   cache, variant>>

\* The registry of Basic.test_collective before its last processor, and
\* the processors that are constructed: those of the test, and one through
\* each class with delimiters.
Collected == {<<>>, <<"A", "B">>}
SharedKeys == {"A", "B", "C", "b", "h", "N"}
SharedNames == {BaseName, SignatureName, IndiscriminateName}

PlainTexts ==
    {<<"a", "b">>, <<"b", "a", "b">>, <<"c">>, <<"C">>, <<"{", "{", "b", "}", "}">>}
SharedTexts ==
    {<<"a", "b">>, <<"{", "{", "b", "}", "}">>, <<"{", "{", "h", "}", "}">>,
     <<"{", "{", "x", "}", "}">>}

InitAuto ==
    /\ registry \in Collected
    /\ nreg = 0
    /\ Idle
    /\ cache = [name \in ClassNames |-> NoCache]
    /\ variant = [name \in VariantNames |-> NoVariant]

NextAuto ==
    \/ \E key \in SharedKeys : key \notin Range(registry) /\ Construct(key)
    \/ \E name \in SharedNames \cup {AutoName} : Clear(name)
    \/ \E text \in PlainTexts : PlainSub(AutoName, text, NoKw)
    \/ \E name \in SharedNames, text \in SharedTexts :
           CollectiveSub(name, text, TRUE, NoKw)
    \/ CollectivePlain
    \/ Unsafe
    \/ Collective
    \/ Return

SpecAuto == InitAuto /\ [][NextAuto]_vars

(***************************************************************************)
(* Resolutions that go deep: a text of many spans, each of which           *)
(* _collective_sub_unsafe resolves in an activation of its own below the   *)
(* last, and a handler whose output holds the span it was called for.      *)
(***************************************************************************)
RECURSIVE Times(_, _)
Times(text, n) == IF n = 0 THEN <<>> ELSE text \o Times(text, n - 1)

\* The most spans of one text: with as many, the activations of
\* _collective_sub_unsafe reach the recursion limit of the interpreter.
MostSpans == RecursionLimit - 3

Deep == {"b", "j", "i", "r"}
DeepTexts ==
    {Times(<<"{", "{", "b", "}", "}">>, n) : n \in 0..MostSpans}
      \cup {<<"{", "{", "r", "}", "}">>, <<"{", "{", "i", "}", "}">>,
            <<"a", "{", "{", "r", "}", "}">>,
            <<"{", "{", "b", "}", "}", "{", "{", "r", "}", "}">>}

InitDeep ==
    /\ registry = <<>>
    /\ nreg = 0
    /\ Idle
    /\ cache = [name \in ClassNames |-> NoCache]
    /\ variant = [name \in VariantNames |-> NoVariant]

NextDeep ==
    \/ \E key \in Deep : key \notin Range(registry) /\ Construct(key)
    \/ \E text \in DeepTexts, sf \in BOOLEAN :
           CollectiveSub(BaseName, text, sf, NoKw)
    \/ Unsafe
    \/ Collective
    \/ Return

SpecDeep == InitDeep /\ [][NextDeep]_vars

(***************************************************************************)
(* The properties of DelimitedShorthand.collective_sub.  With the          *)
(* delimiters {{ and }}, of two characters, _unescape adds no look-behind: *)
(* every occurrence of a delimiter is active.                              *)
(***************************************************************************)
\* Whether text t holds text d somewhere.
Holds(t, d) ==
    \E i \in 1..(Len(t) - Len(d) + 1) : SubSeq(t, i, i + Len(d) - 1) = d

Clean(t) ==
    /\ ~Holds(t, DelimitedShorthand.lead_in)
    /\ ~Holds(t, DelimitedShorthand.lead_out)

Done == pc \in {"returned", "raised"}

\* The names of the handlers called, in the order of the calls.
Names == [i \in 1..Len(called) |-> called[i].fn]

Returned(text) == pc = "returned" /\ result = [kind |-> "text", text |-> text]

\* C1: a call with safe = TRUE that returns has returned a text without
\* lead-in and lead-out; a call with safe = TRUE whose resolution ends with
\* a delimiter in the text raises OpenShorthandError, as it does for b}},
\* {{b and {b}} and for a lead-out that the output of a handler brought in.
C1_SafeReturnsNoDelimiter ==
    /\ (pc = "returned" /\ safe) => Clean(result.text)
    /\ (Done /\ safe /\ ~Clean(whole)
            /\ result.kind \in {"text", "OpenShorthandError"})
          => (pc = "raised" /\ result.kind = "OpenShorthandError")
    /\ (Done /\ safe /\ StringKey \notin DOMAIN passthrough
            /\ raw \in {<<"b", "}", "}">>, <<"{", "{", "b">>, <<"{", "b", "}", "}">>})
          => (pc = "raised" /\ result.kind = "OpenShorthandError")
    /\ (Done /\ safe /\ passthrough = NoKw /\ "o" \in Range(registry)
            /\ raw = <<"{", "{", "o", "}", "}">>)
          => (pc = "raised" /\ result.kind = "OpenShorthandError")

\* A handler has brought a lead-out in, and the call has raised.
C1_Witness ==
    /\ pc = "raised" /\ result.kind = "OpenShorthandError"
    /\ safe /\ called # <<>> /\ Clean(SubSeq(raw, 3, Len(raw) - 2))

\* The span that the target finder found in the whole text.
Span == SubSeq(whole, target.start + 1, target.end)

\* Whether the pass r of a processor over the text left it as it was.
NoEffect(text, r) == r.err = "" /\ (r.n = 0 \/ r.out = text)

\* Whether no registered processor changes the text.
Unchanged(text) ==
    \A i \in 1..Len(registry) :
        NoEffect(text, subn(Proc(registry[i]), text, passthrough))

\* C2: when the target finder has found a span that no registered processor
\* changes (none matches it, or the handler of every one that does returns
\* the span), the next step raises UnknownShorthandError for that span and
\* no text is returned, with safe and without; so it is for {{}} and for
\* {{a}}, whatever is registered, and for {{i}}, whose handler returns it.
C2_UnchangedSpanRaises ==
    /\ [][(pc = "collective" /\ inner = Span /\ Unchanged(inner))
            => (pc' = "raised"
                /\ result' = [kind |-> "UnknownShorthandError", text |-> inner])]_vars
    /\ []((Done /\ StringKey \notin DOMAIN passthrough
              /\ raw \in {<<"{", "{", "}", "}">>, <<"{", "{", "a", "}", "}">>})
            => (pc = "raised" /\ result.kind = "UnknownShorthandError"))
    /\ []((Done /\ passthrough = NoKw /\ registry = <<"i">>
              /\ raw = <<"{", "{", "i", "}", "}">>)
            => (pc = "raised" /\ result.kind = "UnknownShorthandError"))

\* The handler of i has returned the span, safe is off, and the call has
\* raised.
C2_Witness ==
    /\ pc = "raised" /\ result.kind = "UnknownShorthandError"
    /\ ~safe /\ called # <<>> /\ inner = Span

\* A delimited region of text t, from offset i to offset j: a lead-in, a
\* content without lead-in, a lead-out.
Region(t, i, j) ==
    /\ i + 4 <= j /\ j <= Len(t)
    /\ SubSeq(t, i + 1, i + 2) = DelimitedShorthand.lead_in
    /\ SubSeq(t, j - 1, j) = DelimitedShorthand.lead_out
    /\ ~Holds(SubSeq(t, i + 3, j - 2), DelimitedShorthand.lead_in)

Offsets(t) == 0..Len(t)

\* C3: the span that the target finder selects is a delimited region whose
\* content holds no lead-in, no such region starts further left, and none
\* that starts in the same place is shorter; a text in which it selects
\* nothing has no such region.  So in {{{{k}}}} the handler of the inner
\* span, k, is called first, and the handler of the enclosing span, b, is
\* called for the text with the output of k in it.
C3_TargetLeftmostShortest ==
    /\ pc = "collective"
          => /\ Region(whole, target.start, target.end)
             /\ \A i \in Offsets(whole), j \in Offsets(whole) :
                    Region(whole, i, j)
                        => \/ target.start < i
                           \/ target.start = i /\ target.end <= j
    /\ (Done /\ result.kind \in {"text", "OpenShorthandError"})
          => \A i \in Offsets(whole), j \in Offsets(whole) : ~Region(whole, i, j)
    /\ (Done /\ passthrough = NoKw /\ {"b", "k"} \subseteq Range(registry)
            /\ raw = <<"{", "{", "{", "{", "k", "}", "}", "}", "}">>)
          => (Returned(<<"y">>) /\ Names = <<<<"k">>, <<"b">>>>)

\* The inner span of nested markup is the target, and later the call has
\* returned after the calls of both handlers.
C3_Witness ==
    /\ Returned(<<"y">>) /\ Len(called) = 2
    /\ raw = <<"{", "{", "{", "{", "k", "}", "}", "}", "}">>

\* Whether the text holds a span that a registered processor changes.
Resolvable(text, m) ==
    /\ m # NoMatch
    /\ TryRegistry(registry, MatchText(text, m), passthrough).hit

\* Whether the registry begins with the processors of Automatic.
AutomaticFirst == Len(registry) >= 3 /\ SubSeq(registry, 1, 3) = Automatic

\* C4: resolution is depth-first.  When the replacement of a span has been
\* spliced in and the search for the next span begins, the replacement
\* holds no span that a registered processor changes: what the handler
\* emitted is resolved before anything to the right of it.  With the
\* processors of Automatic (b -> y, c -> {{b}}, d -> {{c}}{{c}}),
\* a{{d}}a becomes ayya, and for {{d}}{{b}} the handlers are called in the
\* order d, c, b, c, b, b: each c that d emitted is resolved down to y
\* before the next one, and the last call is the one for the span on the
\* right.
C4_DepthFirst ==
    /\ (pc = "unsafe" /\ target # NoTarget)
          => ~Resolvable(inner, Search(_targetfinder(DelimitedShorthand), inner,
                                       DelimitedShorthand.dotall))
    /\ (Done /\ passthrough = NoKw /\ AutomaticFirst
            /\ raw = <<"a", "{", "{", "d", "}", "}", "a">>)
          => Returned(<<"a", "y", "y", "a">>)
    /\ (Done /\ passthrough = NoKw /\ AutomaticFirst
            /\ raw = <<"{", "{", "d", "}", "}", "{", "{", "b", "}", "}">>)
          => /\ Returned(<<"y", "y", "y">>)
             /\ Names = <<<<"d">>, <<"c">>, <<"b">>, <<"c">>, <<"b">>, <<"b">>>>

\* The markup that d emitted is resolved, the span on the right is still
\* in the text, and no call has been made for it.
C4_Witness ==
    /\ pc = "unsafe" /\ target # NoTarget
    /\ raw = <<"{", "{", "d", "}", "}", "{", "{", "b", "}", "}">>
    /\ whole = <<"y", "y", "{", "{", "b", "}", "}">>
    /\ Len(called) = 5

\* C5: a call for a text that holds neither the lead-in nor the lead-out
\* returns that text, raises nothing and calls no handler, whatever is
\* registered; no span of it is ever handed to the processors.
C5_CleanTextUnchanged ==
    /\ (Done /\ Clean(raw) /\ StringKey \notin DOMAIN passthrough)
          => (Returned(raw) /\ called = <<>>)
    /\ Clean(raw) => pc # "collective"

\* A clean text that is not empty has been returned with processors
\* registered.
C5_Witness ==
    /\ Returned(raw) /\ Clean(raw) /\ Len(raw) = 2
    /\ Len(registry) >= 3

\* The places in the registry of the processors whose pass changes the text.
Changing(text) ==
    {i \in 1..Len(registry) :
        ~NoEffect(text, subn(Proc(registry[i]), text, passthrough))}

\* The calls that the passes of the first n processors make for the text.
RECURSIVE CallsUpTo(_, _)
CallsUpTo(text, n) ==
    IF n = 0 THEN <<>>
    ELSE CallsUpTo(text, n - 1)
         \o subn(Proc(registry[n]), text, passthrough).calls

\* What one activation does when the processors at the places ch change the
\* string: the first of them in the order of registration gives the new
\* string, which the nested call of collective_sub takes as its whole text,
\* and the processors after it are not called.
Decided(ch) ==
    IF ch = {}
    THEN /\ inner' = inner
         /\ called' = called \o CallsUpTo(inner, Len(registry))
    ELSE \E first \in ch :
            /\ \A i \in ch : first <= i
            /\ whole' = subn(Proc(registry[first]), inner, passthrough).out
            /\ called' = called \o CallsUpTo(inner, first)

\* C6: in every activation the processors are tried in the order of
\* registration; the first whose pass matches and changes the string gives
\* the replacement, the processors registered after it are not applied,
\* and the ones before it, which did not match or left the string as it
\* was, have been tried without ending the loop.  With i (which returns
\* its span) registered before j (which matches the same span), {{i}}
\* becomes the output of j after a call of i; with j before i, i is not
\* called.
C6_RegistrationOrder ==
    /\ [][(pc = "collective" /\ passthrough = NoKw)
            => Decided(Changing(inner))]_vars
    /\ []((Done /\ passthrough = NoKw /\ raw = <<"{", "{", "i", "}", "}">>
              /\ registry = <<"i", "j">>)
            => (Returned(<<"z">>) /\ Names = <<<<"i">>, <<"j">>>>))
    /\ []((Done /\ passthrough = NoKw /\ raw = <<"{", "{", "i", "}", "}">>
              /\ registry = <<"j", "i">>)
            => (Returned(<<"z">>) /\ Names = <<<<"j">>>>))

\* The processor registered first matched the span and left it as it was,
\* and the one after it gave the replacement.
C6_Witness ==
    /\ Returned(<<"z">>) /\ registry = <<"i", "j">>
    /\ Names = <<<<"i">>, <<"j">>>>

\* The names of the named groups of the processor whose handler has the name.
GroupNames(fn) == Range(Proc(fn[1]).re.names) \ {<<>>}

\* Whether the call received the passthrough value of the name.
Delivered(call, k) == k \in DOMAIN call.kw /\ call.kw[k] = passthrough[k]

RECURSIVE Finditer(_, _, _, _)
Finditer(re, cx, pos, mustAdvance) ==
    LET Rest(m) ==
            IF m = NoMatch THEN <<>>
            ELSE <<m>> \o Finditer(re, cx, m.end, m.end = m.start)
    IN  Rest(SearchFrom(re, cx, pos, mustAdvance))

\* Whether the call received the groups of the match and the passthrough
\* values, and nothing else.
OwnGroups(call, groups) ==
    /\ call.args = groups.unnamed
    /\ call.kw = Update(Without(passthrough, CountKey), groups.named)

\* C8: in one pass of subn, the call for every match receives the unnamed
\* groups of that match as positional values, and as keywords the named
\* groups that took part in that match and the passthrough values, nothing
\* more: not a named group that took part in an earlier match only.
C8_OwnGroupsOnly ==
    (Done /\ self \in {"w", "k"})
        => \A i \in 1..Len(called) :
              OwnGroups(called[i],
                        _unique_groups(Proc(self).re, raw,
                            Finditer(Proc(self).re,
                                     [s |-> raw, dotall |-> Proc(self).dotall],
                                     0, FALSE)[i]))

\* The string forms of the values given to produce.
Strs(unnamed) == [i \in 1..Len(unnamed) |-> str(unnamed[i])]
StrKw(named) == [k \in DOMAIN named |-> str(named[k])]

\* Whether produce was given a value for every parameter without a default
\* and named values for parameters with a default only.
FitsSignature(function) ==
    /\ Len(given.unnamed) = Len(function.req)
    /\ DOMAIN given.named \subseteq Range(function.opts)

\* C9: when produce was given a value for every required parameter and
\* values for some of the optional ones, and has produced a text, one pass
\* of the same processor over that text calls the handler once, with the
\* string forms of the values given, and returns what the handler returns
\* for them.
C9_RoundTrip ==
    (pc = "returned" /\ self = "g" /\ FitsSignature(HandlerOf(self)))
        => /\ called = <<[fn |-> HandlerOf(self).name,
                          args |-> Strs(given.unnamed),
                          kw |-> StrKw(given.named)]>>
           /\ result.text = Call(HandlerOf(self), Strs(given.unnamed),
                                 StrKw(given.named))

\* Whether the text begins with an identifier and the assignment operator.
StartsWithAssignment(t) ==
    \E n \in 1..(Len(t) - 1) :
        /\ t[1] \in Letters \cup {"_"}
        /\ \A i \in 2..n : t[i] \in Letters \cup Digits \cup {"_"}
        /\ SubSeq(t, n + 1, n + Len(assignment_operator)) = assignment_operator

\* Whether a value given to produce cannot be captured again: a value for
\* a group of the pattern that holds the separator, or an unnamed one that
\* begins like a named one.
SomeValueRefused(function) ==
    \/ \E i \in 1..Min(Len(given.unnamed), Len(function.req)) :
          \/ Holds(str(given.unnamed[i]), separator)
          \/ StartsWithAssignment(str(given.unnamed[i]))
    \/ \E k \in DOMAIN given.named \cap Range(function.opts) :
          Holds(str(given.named[k]), separator)

ProduceOver == self = "g" /\ pc \in {"produced", "raised"}

NoProduction == pc = "raised" /\ result = [kind |-> "ProductionError", text |-> <<>>]

\* C10: whenever a value given to produce cannot be captured again (it
\* holds the separator, or it is an unnamed value that begins with an
\* identifier and the assignment operator), produce raises ProductionError
\* and returns no text; the names given are names of parameters of the
\* handler (another name ends the call with KeyError).
C10_RefusedValueRaises ==
    (ProduceOver /\ SomeValueRefused(HandlerOf(self))
         /\ DOMAIN given.named \subseteq Range(HandlerOf(self).opts))
        => NoProduction

\* produce has refused an unnamed value that begins like a named one.
C10_Witness ==
    /\ ProduceOver /\ NoProduction
    /\ given = [unnamed |-> <<StrValue(<<"z", "=", "1">>)>>, named |-> NoKw]

(***************************************************************************)
(* The properties of SignatureShorthand, on the processor of               *)
(* f(arg, kw0=1, kw1=None).                                                *)
(***************************************************************************)
\* The parameters with a default of which vals holds a value, in the order
\* of the signature.
Present(fn, vals) == SelectSeq(fn.opts, LAMBDA o : o \in DOMAIN vals)

\* The markup of a call: the values of the parameters without a default,
\* then name=value for every parameter of which vals holds a value.
CallMarkup(fn, values, vals) ==
    Markup(DelimitedShorthand, fn.name,
           values \o [i \in 1..Len(Present(fn, vals)) |->
                        Present(fn, vals)[i] \o assignment_operator
                            \o vals[Present(fn, vals)[i]]])

\* What a handler that joins its parameters returns for those values.
Joined(fn, values, vals) ==
    JoinWith(<<" ">>,
             values \o [j \in 1..Len(fn.opts) |->
                          IF fn.opts[j] \in DOMAIN vals
                          THEN vals[fn.opts[j]] ELSE fn.defaults[j]])

Assignable(fn) ==
    UNION {[names -> OptionalValues] : names \in SUBSET Range(fn.opts)}

\* C11: markup that gives a value for arg and name=value for any of kw0 and
\* kw1, in the order of the signature, resolves to what f returns for arg
\* and the values given, with f's own default for every parameter that the
\* markup leaves out, and f is called once, with exactly those values:
\* {{f|1|kw0=1}} gives "1 1 None", {{f|1|kw1=1}} gives "1 1 1" and {{f|}}
\* gives " 1 None".
C11_OptionalSubsetResolves ==
    /\ \A v \in RequiredValues, vals \in Assignable(HandlerOf("f")) :
          (Done /\ raw = CallMarkup(HandlerOf("f"), <<v>>, vals))
             => /\ Returned(Joined(HandlerOf("f"), <<v>>, vals))
                /\ called = <<[fn |-> <<"f">>, args |-> <<v>>, kw |-> vals]>>
    /\ (Done /\ raw = <<"{", "{", "f", "|", "1", "|", "k", "w", "0", "=", "1",
                        "}", "}">>)
          => Returned(<<"1", " ", "1", " ", "N", "o", "n", "e">>)
    /\ (Done /\ raw = <<"{", "{", "f", "|", "1", "|", "k", "w", "1", "=", "1",
                        "}", "}">>)
          => Returned(<<"1", " ", "1", " ", "1">>)
    /\ (Done /\ raw = <<"{", "{", "f", "|", "}", "}">>)
          => Returned(<<" ", "1", " ", "N", "o", "n", "e">>)

\* Markup that gives kw1 and leaves kw0 out has been resolved with the
\* default of kw0.
C11_Witness ==
    /\ Returned(<<"1", " ", "1", " ", "a", "=", "1">>)
    /\ raw = CallMarkup(HandlerOf("f"), <<<<"1">>>>,
                        [o \in {<<"k", "w", "1">>} |-> <<"a", "=", "1">>])
    /\ Len(called) = 1

\* The parts of the markup of f: what stands between the separators after
\* the name.
RECURSIVE Split(_, _)
Split(txt, part) ==
    IF txt = <<>> THEN <<part>>
    ELSE IF <<Head(txt)>> = separator THEN <<part>> \o Split(Tail(txt), <<>>)
    ELSE Split(Tail(txt), Append(part, Head(txt)))

Parts == Tail(Split(SubSeq(raw, 4, Len(raw) - 2), <<>>))

\* The name before the assignment operator of a part that begins with
\* identifier=, and <<>> for a part that does not.
Identifier(t) ==
    /\ t # <<>>
    /\ t[1] \in Letters \cup {"_"}
    /\ \A i \in 2..Len(t) : t[i] \in Letters \cup Digits \cup {"_"}

Assigns(part) ==
    {i \in 1..Len(part) :
        <<part[i]>> = assignment_operator /\ Identifier(SubSeq(part, 1, i - 1))}

LooksNamed(part) == Assigns(part) # {}

NameOf(part) ==
    SubSeq(part, 1, (CHOOSE i \in Assigns(part) : \A j \in Assigns(part) : i <= j) - 1)

\* C12: the processor of f does not match, no handler is called and
\* UnknownShorthandError is raised for the markup, when a part names a
\* keyword that is not kw0 or kw1, when the number of parts that are not
\* name=value is not one, the number of parameters without a default, or
\* when the part in the place of arg begins with identifier=; so it is for
\* {{f|arg=1}}, {{f|kw0=1}} and {{f}}.  A part 1=1 in the place of arg and
\* a value a=1 for kw0 are accepted.
C12_MisfitMarkupRaises ==
    /\ (Done
        /\ \/ \E i \in DOMAIN Parts :
                 LooksNamed(Parts[i])
                    /\ NameOf(Parts[i]) \notin Range(HandlerOf("f").opts)
           \/ Cardinality({i \in DOMAIN Parts : ~LooksNamed(Parts[i])})
                 # Len(HandlerOf("f").req)
           \/ \E i \in 1..Len(HandlerOf("f").req) :
                 i \in DOMAIN Parts /\ LooksNamed(Parts[i]))
          => /\ pc = "raised"
             /\ result = [kind |-> "UnknownShorthandError", text |-> raw]
             /\ called = <<>>
    /\ (Done /\ raw \in {<<"{", "{", "f", "|", "a", "r", "g", "=", "1", "}", "}">>,
                         <<"{", "{", "f", "|", "k", "w", "0", "=", "1", "}", "}">>,
                         <<"{", "{", "f", "}", "}">>})
          => (pc = "raised" /\ result.kind = "UnknownShorthandError")
    /\ (Done /\ raw = <<"{", "{", "f", "|", "1", "=", "1", "|", "k", "w", "0", "=",
                        "a", "=", "1", "}", "}">>)
          => Returned(<<"1", "=", "1", " ", "a", "=", "1", " ", "N", "o", "n", "e">>)

\* Markup whose only part begins with the name of a parameter and the
\* assignment operator has been refused.
C12_Witness ==
    /\ pc = "raised" /\ result.kind = "UnknownShorthandError"
    /\ raw = <<"{", "{", "f", "|", "k", "w", "0", "=", "1", "}", "}">>
    /\ called = <<>>

(***************************************************************************)
(* The properties of escaped delimiters.                                   *)
(***************************************************************************)
\* The characters of the delimiters of a class, and its escape token.
DelimiterChars(cls) == Range(Literal(cls.lead_in)) \cup Range(Literal(cls.lead_out))

EscapeToken(cls) == Literal(cls.escape)

\* Whether the character at place i of t stands right after an escape token.
EscapedAt(cls, t, i) ==
    /\ i > Len(EscapeToken(cls))
    /\ SubSeq(t, i - Len(EscapeToken(cls)), i - 1) = EscapeToken(cls)

\* Whether it stands after exactly one: the escape token is not itself
\* after an escape token.
EscapedOnceAt(cls, t, i) ==
    /\ EscapedAt(cls, t, i)
    /\ ~EscapedAt(cls, t, i - Len(EscapeToken(cls)))

EveryDelimiterEscaped(cls, t) ==
    \A i \in 1..Len(t) : t[i] \in DelimiterChars(cls) => EscapedAt(cls, t, i)

\* C13: in every class, a call for a text in which every delimiter
\* character stands right after the escape token returns that text, with no
\* handler called and no error (as a\{\{c\}\}a with the delimiters {{ and
\* }}), and the character at which a span ends is never an escaped one: an
\* escaped delimiter in the content does not end the span.
C13_EscapedPassThrough ==
    /\ (Done /\ EveryDelimiterEscaped(ClassOf(scope), raw))
          => (Returned(raw) /\ called = <<>>)
    /\ pc = "collective" => ~EscapedAt(ClassOf(scope), whole, target.end)
    /\ (Done /\ scope = BaseName
            /\ raw = <<"a", "\\", "{", "\\", "{", "c", "\\", "}", "\\", "}", "a">>)
          => Returned(raw)

\* C14: in SingleCharacter, whose delimiters { and } have one character, a
\* delimiter character right after exactly one escape token is not active:
\* no span starts or ends at it, the safe check does not raise when every
\* delimiter character left in the text is such a one, and the text \{a\}
\* is returned as it is.
C14_SingleEscapeInactive ==
    scope = "SingleCharacter"
       => /\ pc = "collective"
                => /\ ~EscapedOnceAt(ClassOf(scope), whole, target.start + 1)
                   /\ ~EscapedOnceAt(ClassOf(scope), whole, target.end)
          /\ (Done /\ result.kind = "OpenShorthandError")
                => \E i \in 1..Len(whole) :
                      /\ whole[i] \in DelimiterChars(ClassOf(scope))
                      /\ ~EscapedOnceAt(ClassOf(scope), whole, i)
          /\ (Done /\ raw = <<"\\", "{", "a", "\\", "}">>) => Returned(raw)

(***************************************************************************)
(* The text that produce writes.                                           *)
(***************************************************************************)
\* The sequences that hold every element of S once.
Orders(S) == {o \in [1..Cardinality(S) -> S] : Range(o) = S}

\* The markup of the name, the values and the named values in the order
\* given, every value and every name=value after a separator.
Rendered(cls, name, unnamed, named, order) ==
    Markup(cls, name,
           Strs(unnamed)
           \o [j \in 1..Len(order) |->
                  order[j] \o assignment_operator \o str(named[order[j]])])

\* produce has returned or raised, and subn has not been called yet.
Answering == pc \in {"produced", "raised"} /\ raw = <<>>

\* C15: when produce, given a value for every parameter without a default
\* and named values for some of those with one, has returned a text, that
\* text is the lead-in, the name of the handler, every unnamed value after
\* a separator, name=value after a separator for every named value given,
\* in some order, and the lead-out: nothing is written for a parameter that
\* was given no value.  For a(v0, v1=None), produce(1, v1=2) is {{a|1|v1=2}}
\* and produce(1) is {{a|1}}; for h(), produce() is {{h}}.
C15_ProducedText ==
    /\ (pc = "produced" /\ FitsSignature(HandlerOf(self)))
          => \E order \in Orders(DOMAIN given.named) :
                result.text = Rendered(DelimitedShorthand, HandlerOf(self).name,
                                       given.unnamed, given.named, order)
    /\ (Answering /\ self = "t"
            /\ given = [unnamed |-> <<IntValue(1)>>,
                        named |-> Kw(<<"v", "1">>, IntValue(2))])
          => result = [kind |-> "text",
                       text |-> <<"{", "{", "a", "|", "1", "|", "v", "1", "=", "2",
                                  "}", "}">>]
    /\ (Answering /\ self = "t"
            /\ given = [unnamed |-> <<IntValue(1)>>, named |-> NoKw])
          => result = [kind |-> "text",
                       text |-> <<"{", "{", "a", "|", "1", "}", "}">>]
    /\ (Answering /\ self = "h")
          => result = [kind |-> "text", text |-> <<"{", "{", "h", "}", "}">>]

\* produce has written one of the two named values of g and nothing for
\* the other.
C15_Witness ==
    /\ pc = "produced" /\ self = "g"
    /\ given = [unnamed |-> <<IntValue(7)>>, named |-> Kw(<<"b">>, StrValue(<<"x">>))]
    /\ result.text = <<"{", "{", "g", "|", "7", "|", "b", "=", "x", "}", "}">>

(***************************************************************************)
(* The derivation of a processor from a variadic handler: k takes          *)
(* kw="b" and **kwargs.                                                    *)
(***************************************************************************)
\* C16, as stated: no processor derived from the signature of a handler
\* that takes *args or **kwargs is ever in the registry (its derivation
\* fails and nothing is appended).
C16_VariadicNeverRegistered ==
    \A i \in DOMAIN registry :
        registry[i] \in SignatureKeys => ~Variadic(HandlerOf(registry[i]))

\* C16, amended: the derivation of a processor from a variadic handler
\* raises nothing.  Every construction, that of k included, leaves no error
\* and appends one processor to the registry; the pattern of k is derived
\* from its named parameter alone, so that with k alone in the registry
\* {{k}} gives the default of kw and {{k|kw=c}} gives c.
C16_VariadicDerivedFromNamed ==
    /\ [][(pc = "idle" /\ nreg' # nreg)
            => /\ pc' = "idle"
               /\ \E key \in Later : registry' = Append(registry, key)]_vars
    /\ []((Done /\ passthrough = NoKw /\ registry = <<"k">>
              /\ raw = <<"{", "{", "k", "}", "}">>)
            => (Returned(<<"b">>)
                /\ called = <<[fn |-> <<"k">>, args |-> <<>>, kw |-> NoKw]>>))
    /\ []((Done /\ passthrough = NoKw /\ registry = <<"k">>
              /\ raw = <<"{", "{", "k", "|", "k", "w", "=", "c", "}", "}">>)
            => Returned(<<"c">>))

\* The processor of k is in the registry and its markup has been resolved
\* with the value given for kw.
C16_Witness ==
    /\ registry = <<"k">> /\ Variadic(HandlerOf("k"))
    /\ raw = <<"{", "{", "k", "|", "k", "w", "=", "c", "}", "}">>
    /\ Returned(<<"c">>) /\ Len(called) = 1

(***************************************************************************)
(* Scopes: their registries, their failures and their independence.        *)
(***************************************************************************)
\* The registry of each scope that has one of its own.
Registries ==
    [name \in ScopeNames |->
        IF name = BaseName THEN registry ELSE variant[name].registry]

\* One processor of the key has been appended to the registry of one scope,
\* and nothing else about the registries has changed.
AppendedTo(name, key) ==
    /\ name = BaseName \/ variant[name].own
    /\ Registries' = [Registries EXCEPT ![name] = Append(@, key)]
    /\ \A other \in VariantNames :
           /\ variant'[other].made = variant[other].made
           /\ variant'[other].own = variant[other].own

\* C17: the construction of a processor with a pattern that does not
\* compile ends at once with the error of the pattern and leaves every
\* registry as it was; a construction that ends without an error has
\* appended a processor whose pattern compiles; so no registry ever holds a
\* processor whose pattern does not compile.
C17_BadPatternNotRegistered ==
    /\ [](\A name \in ScopeNames : \A i \in DOMAIN Registries[name] :
              Balanced(Source(Registries[name][i]), 0))
    /\ [][(nreg' # nreg /\ pc' = "raised")
            => /\ result' = [kind |-> "error", text |-> <<>>]
               /\ registry' = registry
               /\ variant' = variant]_vars
    /\ [][(nreg' # nreg /\ pc' # "raised")
            => /\ pc' = "idle"
               /\ \E key \in ScopeKeys, name \in ScopeNames :
                      /\ Balanced(Source(key), 0)
                      /\ AppendedTo(name, key)]_vars

\* A construction has failed on its pattern and the registry, which had a
\* processor, still has that one alone.
C17_Witness ==
    /\ pc = "raised" /\ raw = <<>> /\ self = ""
    /\ result.kind = "error"
    /\ registry = <<"b">>

\* The last handler called is e, which raises NotImplementedError.
LastCalled(name) == called # <<>> /\ called[Len(called)].fn = name

\* C18: an error that a handler raises during subn, and so during sub,
\* or during collective_sub is the outcome of the call as it is, not
\* UnknownShorthandError or OpenShorthandError, with no text; the call goes
\* no further, and the step that ends with the error leaves every registry
\* as it was.  The markup of e, with e in the registry of the scope, always
\* ends so.
C18_HandlerErrorPropagates ==
    /\ [](LastCalled(<<"e">>)
            => /\ pc = "raised"
               /\ result = [kind |-> "NotImplementedError", text |-> <<>>])
    /\ []((Done /\ raw = <<"{", "{", "e", "}", "}">>
              /\ (self = "e" \/ "e" \in Range(RegistryOf(scope))))
            => /\ LastCalled(<<"e">>)
               /\ result.kind = "NotImplementedError")
    /\ [][(pc' = "raised" /\ result'.kind = "NotImplementedError")
            => (registry' = registry /\ variant' = variant)]_vars

\* collective_sub has ended with the error of e, safe being on, and subn
\* has.
C18_Witness ==
    /\ pc = "raised" /\ result.kind = "NotImplementedError"
    /\ LastCalled(<<"e">>) /\ self = "" /\ safe
    /\ registry = <<"b", "e">>

\* C19: the registry of a scope changes only while no call is under way,
\* and then only to itself with one processor appended, by a construction,
\* or to the empty list, by a clear; no step of collective_sub, subn (and
\* so sub) or produce changes a registry; and every construction that ends
\* without an error appends one processor, whether or not the registry has
\* one of the same handler and pattern already.
C19_RegistryAppendOrClear ==
    /\ [][\A name \in ScopeNames :
              Registries'[name] # Registries[name]
                  => /\ pc = "idle" /\ pc' = "idle"
                     /\ \/ Registries'[name] = <<>>
                        \/ /\ nreg' = nreg + 1
                           /\ \E key \in ScopeKeys :
                                  Registries'[name]
                                      = Append(Registries[name], key)]_vars
    /\ [][(pc # "idle" \/ pc' # "idle") => Registries' = Registries]_vars
    /\ [][(nreg' # nreg /\ pc' = "idle")
            => \E key \in ScopeKeys, name \in ScopeNames :
                   AppendedTo(name, key)]_vars

\* Two processors of the same handler and pattern are in the registry, and
\* markup has been resolved with them.
C19_Witness ==
    /\ registry = <<"b", "b">>
    /\ raw = <<"{", "{", "b", "}", "}">>
    /\ self = "" /\ Returned(<<"y">>)

\* A variant that has been made with a registry of its own.
Own(name) == variant[name].made /\ variant[name].own

\* The class whose delimiters are those a variant is made with.
OwnClass(name) ==
    IF name = "SingleCharacter"
    THEN [DelimitedShorthand EXCEPT !.lead_in = <<"{">>, !.lead_out = <<"}">>]
    ELSE DelimitedShorthand

\* collective_sub has ended with this error for this span.
Unknown(text) ==
    pc = "raised" /\ result = [kind |-> "UnknownShorthandError", text |-> text]

\* C20: variant_class with new_registry on makes a scope with an empty
\* registry and an empty cache of its own and changes nothing of its
\* parent; a construction or a call in such a variant leaves the registry
\* and the cache of the parent as they were, and a construction or a call
\* in the parent those of the variant; what markup resolves to in one scope
\* depends on the registry of that scope alone; and the target finder in
\* the cache of a variant is the one derived from the delimiters of the
\* variant, under a key that names the variant.
C20_VariantIndependent ==
    /\ [][\A name \in VariantNames :
              (~variant[name].made /\ Own(name)')
                  => /\ variant'[name].registry = <<>>
                     /\ cache'[name] = NoCache
                     /\ registry' = registry
                     /\ cache'[BaseName] = cache[BaseName]]_vars
    /\ [][\A name \in VariantNames :
              Own(name)
                  => /\ ((pc # "idle" /\ scope = name)
                            \/ variant'[name].registry # variant[name].registry
                            \/ cache'[name] # cache[name])
                         => /\ registry' = registry
                            /\ cache'[BaseName] = cache[BaseName]
                     /\ ((pc # "idle" /\ scope = BaseName)
                            \/ registry' # registry
                            \/ cache'[BaseName] # cache[BaseName])
                         => /\ variant'[name] = variant[name]
                            /\ cache'[name] = cache[name]]_vars
    /\ []((Done /\ self = "" /\ raw = <<"{", "{", "b", "}", "}">>
              /\ Own("Custom"))
            => IF scope = "Custom"
               THEN IF "v" \in Range(variant["Custom"].registry)
                    THEN Returned(<<"w">>) ELSE Unknown(raw)
               ELSE IF "b" \in Range(registry)
                    THEN Returned(<<"y">>) ELSE Unknown(raw))
    /\ []((Done /\ self = "" /\ raw = <<"{", "a", "}">>
              /\ Own("SingleCharacter"))
            => IF "a" \in Range(variant["SingleCharacter"].registry)
               THEN Returned(<<"x">>) ELSE Unknown(raw))
    /\ [](\A name \in VariantNames :
              /\ \A key \in DOMAIN cache[name] : key.cls = name
              /\ Key("_targetfinder", name, <<>>) \in DOMAIN cache[name]
                    => cache[name][Key("_targetfinder", name, <<>>)]
                           = _targetfinder(OwnClass(name)))

\* With the target finder of the parent in the cache of the parent and a
\* processor in its registry, markup of the variant with single-character
\* delimiters has been resolved with the processor of the variant.
C20_Witness ==
    /\ Own("SingleCharacter")
    /\ scope = "SingleCharacter" /\ raw = <<"{", "a", "}">>
    /\ Returned(<<"x">>)
    /\ registry = <<"b">>
    /\ variant["SingleCharacter"].registry = <<"a">>
    /\ Key("_targetfinder", BaseName, <<>>) \in DOMAIN cache[BaseName]

(***************************************************************************)
(* The replacements of one pass of subn.                                   *)
(***************************************************************************)
\* The subject of the call of subn, as the matcher takes it.
Subject == [s |-> raw, dotall |-> Proc(self).dotall]

\* The number of matches that a pass with the count replaces.
Replaced(count, ms) == IF count # 0 /\ count < Len(ms) THEN count ELSE Len(ms)

\* The subject with the first n of the matches ms, from match i on,
\* replaced by what the handler returned for the calls made, and the text
\* between and after them as it was.
RECURSIVE Rebuilt(_, _, _, _)
Rebuilt(ms, n, i, last) ==
    IF i > n THEN SubSeq(raw, last + 1, Len(raw))
    ELSE SubSeq(raw, last + 1, ms[i].start)
         \o Call(Proc(self).function, called[i].args, called[i].kw)
         \o Rebuilt(ms, n, i + 1, ms[i].end)

\* Whether the pass replaced the first n of the matches ms, which lie from
\* left to right without overlap from the leftmost match of the subject
\* on, with one call of the handler for each.
InMode(ms, n) ==
    /\ \A i \in 1..(Len(ms) - 1) : ms[i].end <= ms[i + 1].start
    /\ ms # <<>> => \A j \in 0..(ms[1].start - 1) :
                        MatchAt(Proc(self).re, Subject, j, FALSE) = NoMatch
    /\ Len(called) = n
    /\ subn(Proc(self), raw, passthrough).n = n
    /\ result.text = Rebuilt(ms, n, 1, 0)

\* C22: a pass of subn with count = 1 (single mode) replaces the leftmost
\* match of the subject only and calls the handler once for it; a pass
\* without count, or with count = 0 (all mode), replaces every match, the
\* matches lying from left to right without overlap, and the number that
\* subn returns is the number of calls of the handler; in both modes the
\* text before, between and after the matches replaced is as it was.
C22_ReplacementModes ==
    (Done /\ self \in {"w", "k"} /\ result.kind = "text")
        => InMode(Finditer(Proc(self).re, Subject, 0, FALSE),
                  Replaced(IF CountKey \in DOMAIN passthrough
                           THEN passthrough[CountKey] ELSE 0,
                           Finditer(Proc(self).re, Subject, 0, FALSE)))

\* A pass in single mode over a subject with two matches has replaced the
\* first of them with one call.
C22_Witness ==
    /\ pc = "returned" /\ self = "w" /\ CountKey \in DOMAIN passthrough
    /\ raw = <<"b", "c", "a", "b">>
    /\ result.text = <<"b", " ", "D", "c", "a", "b">>
    /\ Len(called) = 1

(***************************************************************************)
(* The splice of _collective_sub_unsafe.                                   *)
(***************************************************************************)
\* Text t with every {{b}} replaced by y when b is registered, and every
\* {{i}} by z when j is, from left to right and in place.
RECURSIVE InPlace(_)
InPlace(t) ==
    IF t = <<>> THEN <<>>
    ELSE IF Len(t) >= 5 /\ "b" \in Range(registry)
            /\ SubSeq(t, 1, 5) = <<"{", "{", "b", "}", "}">>
    THEN <<"y">> \o InPlace(SubSeq(t, 6, Len(t)))
    ELSE IF Len(t) >= 5 /\ "j" \in Range(registry)
            /\ SubSeq(t, 1, 5) = <<"{", "{", "i", "}", "}">>
    THEN <<"z">> \o InPlace(SubSeq(t, 6, Len(t)))
    ELSE <<Head(t)>> \o InPlace(Tail(t))

\* Whether text t is text s with the span from offset i to offset j
\* replaced by r, and every character outside the span as it was.
Spliced(t, s, i, j, r) ==
    /\ Len(t) = Len(s) - (j - i) + Len(r)
    /\ SubSeq(t, 1, i) = SubSeq(s, 1, i)
    /\ SubSeq(t, i + 1, i + Len(r)) = r
    /\ SubSeq(t, i + Len(r) + 1, Len(t)) = SubSeq(s, j + 1, Len(s))

\* C27: the step that puts the replacement of a span into the text of the
\* activation that waits for it changes the span only: the text before the
\* start of the span and the text after its end are in the new text,
\* character for character, around the replacement.  So with handlers
\* whose output holds no delimiter (b -> y, j -> z) a text that is returned
\* is the input with every span replaced in place, and a{{b}}a{{b}}a gives
\* ayaya.
C27_SpliceInPlace ==
    /\ [][(pc = "unsafe" /\ pc' = "unsafe" /\ stack # <<>>
              /\ Len(stack') < Len(stack))
            => Spliced(whole', Head(stack).whole, Head(stack).target.start,
                       Head(stack).target.end, whole)]_vars
    /\ []((Done /\ result.kind = "text" /\ Range(registry) \subseteq {"b", "j"})
            => result.text = InPlace(raw))
    /\ []((Done /\ passthrough = NoKw /\ "b" \in Range(registry)
              /\ raw = <<"a", "{", "{", "b", "}", "}", "a", "{", "{", "b", "}", "}", "a">>)
            => Returned(<<"a", "y", "a", "y", "a">>))

\* The second span of a{{b}}a{{b}}a has been replaced, with text on both
\* sides of it.
C27_Witness ==
    /\ pc = "unsafe" /\ target = [start |-> 3, end |-> 8]
    /\ raw = <<"a", "{", "{", "b", "}", "}", "a", "{", "{", "b", "}", "}", "a">>
    /\ whole = <<"a", "y", "a", "y", "a">>
    /\ inner = <<"y">>

(***************************************************************************)
(* The order of the named values that produce writes.                      *)
(***************************************************************************)
\* The names given, in the order in which the signature declares them,
\* which is the order of the optional groups of the pattern.
DeclaredOrder(function, names) ==
    SelectSeq(function.opts, LAMBDA n : n \in names)

\* C28: when produce, given a value for every parameter without a default
\* and named values for some of those with one, has returned a text, the
\* named values are in it in the order in which the signature declares
\* their parameters, and the pattern of the processor matches the text.
C28_NamedInDeclarationOrder ==
    (pc = "produced" /\ self = "g" /\ FitsSignature(HandlerOf(self)))
        => /\ result.text
                = Rendered(DelimitedShorthand, HandlerOf(self).name,
                           given.unnamed, given.named,
                           DeclaredOrder(HandlerOf(self), DOMAIN given.named))
           /\ FullMatch(Proc(self).re, result.text, Proc(self).dotall)

(***************************************************************************)
(* The keywords of a pass: count, and a name that is both passed and       *)
(* captured.                                                               *)
(***************************************************************************)
\* The names and texts that match m of the processor captured: the named
\* groups that took part, and for IndiscriminateShorthand the name=value
\* elements of its one group.
Captured(proc, m) ==
    IF "tokens" \in DOMAIN proc
    THEN _tokenize(GroupText(raw, m, 1)).named
    ELSE _unique_groups(proc.re, raw, m).named

\* Whether call i got the texts that its match captured under their names.
GotCaptured(call, captured) ==
    \A k \in DOMAIN captured : k \in DOMAIN call.kw /\ call.kw[k] = captured[k]

\* Whether the calls of the pass are those for the first matches of ms, at
\* most count of them when count is not 0, each without count among its
\* keywords and with what its match captured.
Counted(proc, ms, count) ==
    /\ \A i \in 1..Len(called) : CountKey \notin DOMAIN called[i].kw
    /\ Len(called) <= Len(ms)
    /\ count # 0 => Len(called) <= count
    /\ result.kind = "text" => Len(called) = Replaced(count, ms)
    /\ \A i \in 1..Len(called) : GotCaptured(called[i], Captured(proc, ms[i]))

\* C30: no handler call of a pass of subn has a keyword count: count is
\* taken out of the passthrough values and is the most matches that the
\* pass replaces, every match being replaced when it is absent; and a
\* handler gets the text that its match captured under a name, also when a
\* passthrough value has that name.  So it is for a pattern with named
\* groups (w), for a signature-derived processor (k) and for
\* IndiscriminateShorthand (F), whose _process is its own.
C30_CountKeptFromHandlers ==
    (Done /\ self \in {"w", "k", "F"})
        => Counted(Proc(self), Finditer(Proc(self).re, Subject, 0, FALSE),
                   IF CountKey \in DOMAIN passthrough
                   THEN passthrough[CountKey] ELSE 0)

\* The master function was passed kw and count along with markup that has
\* kw=2 in it: it was called for the first span only, with the 2.
C30_Witness ==
    /\ pc = "returned" /\ self = "F"
    /\ raw = <<"{", "{", "c", "|", "1", "|", "k", "w", "=", "2", "}", "}", "a",
               "{", "{", "b", "}", "}">>
    /\ passthrough = Kw(CountKey, 1)
    /\ called = <<[fn |-> <<"f">>, args |-> <<<<"c">>, <<"1">>>>,
                   kw |-> Kw(KwName, <<"2">>)]>>
    /\ result.text = <<"y", "a", "{", "{", "b", "}", "}">>

(***************************************************************************)
(* The decorators, and the resolution of markup that handlers emit.        *)
(***************************************************************************)
\* Whether the step appended the processor of the key, and nothing else,
\* to the registry of the class of the key, which these classes share.
AppendedOne(key) ==
    /\ registry' = Append(registry, key)
    /\ Proc(key).function = HandlerOf(key)
    /\ variant' = variant

\* C21: a step in which register returns appends one processor, made from
\* the function it was given, to the registry of the class, and returns
\* that function; a step in which swallow returns appends the same
\* processor and returns the processor.  After register of f(name), which
\* returns e and the name, on IndiscriminateShorthand alone, t{{x}}t
\* becomes text.
C21_DecoratorReturns ==
    /\ [][pc' = "registered"
            => \E key \in Decorated :
                  /\ pc = "idle" /\ AppendedOne(key)
                  /\ result' = Function(key)]_vars
    /\ [][pc' = "swallowed"
            => \E key \in Decorated :
                  /\ pc = "idle" /\ AppendedOne(key)
                  /\ result' = Processor(key)]_vars
    /\ []((Done /\ registry = <<"N">>
              /\ raw = <<"t", "{", "{", "x", "}", "}", "t">>)
            => Returned(<<"t", "e", "x", "t">>))

\* register has returned the function f to a registry that had the master
\* function in it, and the registry has one processor more.
C21_Witness ==
    /\ pc = "registered" /\ result = Function("N")
    /\ registry = <<"F", "N">>

\* The content of a span: what stands between its delimiters.
Content(span) == SubSeq(span, 3, Len(span) - 2)

\* C24: handlers are called in the passes over the span that the target
\* finder selected and nowhere else, and the content of that span holds no
\* lead-in, in the text of the caller and in what a handler emitted
\* alike.  For {{d{{e}}}} the master function, behind the catch-all
\* pattern (.*?), is called for e, b, d and c in that order, and when n
\* emits {{d{{e}}}} the calls after that of n are the same.
C24_EmittedInnermostFirst ==
    /\ [](pc = "collective"
            => /\ inner = Span
               /\ ~Holds(Content(inner), DelimitedShorthand.lead_in))
    /\ [][Len(called') > Len(called) => pc = "collective"]_vars
    /\ []((Done /\ registry = <<"F">>
              /\ raw = <<"{", "{", "d", "{", "{", "e", "}", "}", "}", "}">>)
            => /\ Returned(<<"y">>)
               /\ [i \in 1..Len(called) |-> called[i].args[1]]
                     = <<<<"e">>, <<"b">>, <<"d">>, <<"c">>>>)
    /\ []((Done /\ registry = <<"sn", "F">> /\ raw = <<"{", "{", "n", "}", "}">>)
            => /\ Returned(<<"y">>)
               /\ Names = <<<<"n">>, <<"f">>, <<"f">>, <<"f">>, <<"f">>>>)

\* n has emitted nested markup, and the inner span of it is the target,
\* with the catch-all processor registered.
C24_Witness ==
    /\ pc = "collective" /\ registry = <<"sn", "F">>
    /\ raw = <<"{", "{", "n", "}", "}">>
    /\ whole = <<"{", "{", "d", "{", "{", "e", "}", "}", "}", "}">>
    /\ inner = <<"{", "{", "e", "}", "}">>


(***************************************************************************)
(* The properties of CollectiveProcessor.collective_sub on a class without *)
(* delimiters, and of the registry that the classes share.                 *)
(***************************************************************************)
\* What one activation of the collective_sub of CollectiveProcessor does
\* when the processors at the places ch change its string: the first of
\* them in the order of registration gives the string of the next
\* activation, which starts at the first processor again; without one the
\* string is returned.
Restarted(ch) ==
    IF ch = {}
    THEN /\ pc' = "returned"
         /\ result' = [kind |-> "text", text |-> inner]
         /\ called' = called \o CallsUpTo(inner, Len(registry))
    ELSE \E first \in ch :
            /\ \A i \in ch : first <= i
            /\ pc' = "plain"
            /\ inner' = subn(Proc(registry[first]), inner, passthrough).out
            /\ called' = called \o CallsUpTo(inner, first)

\* C23: the collective_sub of a class without delimiters tries the
\* processors in the order of registration; the first whose pass changes
\* the string gives the string of a new scan, which starts at the first
\* processor; the string is returned only by a scan in which no processor
\* changes it, so no registered processor changes the returned string.
\* With 'a' -> 'A' and 'b' -> 'B' registered, ab becomes AB, bab becomes
\* BAB and c stays; with '.' -> 'C' registered too, c becomes C, and C,
\* which '.' matches and replaces by itself, is returned after one scan.
C23_RestartUntilNoChange ==
    /\ [][pc = "plain" => Restarted(Changing(inner))]_vars
    /\ []((pc = "returned" /\ scope = AutoName)
            => (result.kind = "text" /\ Unchanged(result.text)))
    /\ []((Done /\ scope = AutoName /\ registry = <<"A", "B">>)
            => /\ raw = <<"a", "b">> => Returned(<<"A", "B">>)
               /\ raw = <<"b", "a", "b">> => Returned(<<"B", "A", "B">>)
               /\ raw = <<"c">> => (Returned(<<"c">>) /\ called = <<>>))
    /\ []((Done /\ scope = AutoName /\ registry = <<"A", "B", "C">>)
            => /\ raw = <<"c">> => (Returned(<<"C">>) /\ Len(called) = 2)
               /\ raw = <<"C">> => (Returned(<<"C">>) /\ Len(called) = 1))

\* With '.' -> 'C' registered last, c has become C, and the scan of C, in
\* which the handler was called again, has ended the resolution.
C23_Witness ==
    /\ scope = AutoName /\ registry = <<"A", "B", "C">>
    /\ raw = <<"c">> /\ Returned(<<"C">>)
    /\ Names = <<<<"C">>, <<"C">>>>

\* C29: DelimitedShorthand, SignatureShorthand, IndiscriminateShorthand and
\* AutoRegisteringProcessor have one registry, that of CollectiveProcessor:
\* a processor constructed through any of them is appended to that list;
\* the collective_sub of every one of them tries the processors of that
\* list, whichever class made them; and a clear through any of them leaves
\* the list empty for all.  So {{b}}, {{h}} and {{x}} are resolved by a
\* processor made through DelimitedShorthand, SignatureShorthand and
\* IndiscriminateShorthand in every scope, a processor made through
\* AutoRegisteringProcessor is applied to a span, and with the list empty
\* {{b}} is unknown in every scope with delimiters and returned as it is
\* by AutoRegisteringProcessor.
C29_OneRegistry ==
    /\ [][nreg' # nreg
            => \E key \in SharedKeys :
                  /\ registry' = Append(registry, key)
                  /\ variant' = variant]_vars
    /\ [][(pc = "collective" \/ pc = "plain")
            => called' = called
                   \o TryRegistry(registry, inner, passthrough).calls]_vars
    /\ [][(pc = "idle" /\ pc' = "idle" /\ nreg' = nreg /\ registry' # registry)
            => registry' = <<>>]_vars
    /\ []((Done /\ raw = <<"{", "{", "b", "}", "}">>)
            => /\ registry = <<"b">> => Returned(<<"y">>)
               /\ (registry = <<"C">> /\ scope # AutoName)
                     => Returned(<<"C", "C", "C", "C", "C">>)
               /\ (registry = <<>> /\ scope # AutoName)
                     => result = [kind |-> "UnknownShorthandError", text |-> raw]
               /\ (registry = <<>> /\ scope = AutoName) => Returned(raw))
    /\ []((Done /\ raw = <<"{", "{", "h", "}", "}">> /\ registry = <<"h">>)
            => Returned(<<"r">>))
    /\ []((Done /\ raw = <<"{", "{", "x", "}", "}">> /\ registry = <<"N">>)
            => Returned(<<"e", "x">>))

\* After a clear, a processor made through IndiscriminateShorthand is the
\* only one registered, and the collective_sub of DelimitedShorthand has
\* resolved a span with it.
C29_Witness ==
    /\ nreg = 2 /\ registry = <<"N">>
    /\ scope = BaseName /\ raw = <<"{", "{", "x", "}", "}">>
    /\ Returned(<<"e", "x">>)

(***************************************************************************)
(* The properties of resolutions that go deep.                             *)
(***************************************************************************)
\* The span of the processor made with the pattern '(key)'.
SpanOf(key) == DelimitedShorthand.lead_in \o <<key>> \o DelimitedShorthand.lead_out

LeadIns(text) ==
    Cardinality({i \in 1..Len(text) :
        /\ i + Len(DelimitedShorthand.lead_in) - 1 <= Len(text)
        /\ SubSeq(text, i, i + Len(DelimitedShorthand.lead_in) - 1)
             = DelimitedShorthand.lead_in})

\* C26: with processors that all have delimiters and handlers whose output
\* holds no character of a delimiter (b and j), every call of
\* collective_sub that has ended has returned a text or raised
\* OpenShorthandError or UnknownShorthandError, after at most as many
\* handler calls, one for each span resolved, as the text has lead-ins.
C26_EndsWithinLeadIns ==
    (Done /\ scope = BaseName /\ Range(registry) \subseteq {"b", "j"})
      => /\ result.kind \in {"text", "OpenShorthandError", "UnknownShorthandError"}
         /\ Len(called) <= LeadIns(raw)
=============================================================================
